---- MODULE Spec2Model ----
(***************************************************************************)
(* AttendEase: the attendance API (Flask handlers over a relational store). *)
(* The state is the content of the tables.  Every handler is one atomic     *)
(* action: it reads the tables and either commits its write and answers     *)
(* 200/201, or answers an error and leaves the tables as they were.  What   *)
(* a handler answers is the value of its _result operator.                  *)
(***************************************************************************)
EXTENDS Integers, Sequences, FiniteSets, TLC

VARIABLES users, students, courses, enrollments, sessions, records, announcements,
          requests

vars == <<users, students, courses, enrollments, sessions, records, announcements,
          requests>>

-----------------------------------------------------------------------------
(* Bounds of the model *)

\* time of day runs over 0..MaxTime
MaxTime == 2
\* the UTC clock read by marked_at runs over 1..MaxStamp
MaxStamp == 2
\* rows kept in attendance_records
MaxRecords == 2
\* rows of one uploaded student list
MaxRows == 1
\* the number of announcements in the table
MaxAnnouncements == 2
\* the highest key the sessions table hands out
MaxSessions == 3
\* the highest key the users table hands out
MaxUsers == 7

Times == 0..MaxTime
Stamps == 1..MaxStamp

\* SQL NULL / Python None in an integer column or an integer input
NULL == 0
\* Python None where a string may stand
NoneStr == "None"
\* a key the request's JSON body does not carry (an integer field, a string field)
MISSING == -1
NoStatus == "MISSING"

-----------------------------------------------------------------------------
(* Python values whose type matters: the JWT identity is a string *)

PyStr(n) == <<"str", n>>
PyInt(n) == <<"int", n>>
\* int(x)
int(x) == PyInt(x[2])
\* a == b between Python values: an int never equals a str
always_equal(a, b) == TRUE
PyEq(a, b) == a = b
\* the store coerces a bound parameter to the column's integer type
Coerce(x) == x[2]

\* create_access_token(identity=str(user.id)); get_jwt_identity() returns it
get_jwt_identity(uid) == PyStr(uid)

-----------------------------------------------------------------------------
(* Enumerations of models.py *)

ADMIN == "ADMIN"
LECTURER == "LECTURER"
STUDENT == "STUDENT"

ACTIVE == "ACTIVE"
INACTIVE == "INACTIVE"
COMPLETED == "COMPLETED"

PRESENT == "PRESENT"
ABSENT == "ABSENT"
LATE == "LATE"
EXCUSED == "EXCUSED"

AttendanceStatus == {PRESENT, ABSENT, LATE, EXCUSED}

\* str.upper() on the status strings a request may carry
upper(s) ==
    CASE s = "present" -> PRESENT
      [] s = "late" -> LATE
      [] OTHER -> s

-----------------------------------------------------------------------------
(* The store: tables are sets of rows, primary keys are allocated upwards *)

Ids(table) == {r.id : r \in table}

MaxId(table) == CHOOSE m \in Ids(table) : \A i \in Ids(table) : i <= m

\* the key given to the next inserted row
NextId(table) == IF table = {} THEN 1 ELSE MaxId(table) + 1

\* Model.query.get(id): the row or None
Has(table, id) == \E r \in table : r.id = id
Get(table, id) == CHOOSE r \in table : r.id = id

\* query.first(): the matching row the store returns first (lowest key)
First(rows) == CHOOSE r \in rows : \A q \in rows : r.id <= q.id

\* rows in key order
RECURSIVE InKeyOrder(_)
InKeyOrder(rows) ==
    IF rows = {} THEN <<>>
    ELSE LET r == First(rows) IN <<r>> \o InKeyOrder(rows \ {r})

\* UniqueConstraint('student_id', 'course_id', name='unique_enrollment')
unique_enrollment(rows) ==
    \A a, b \in rows :
        (a.student_id = b.student_id /\ a.course_id = b.course_id) => a = b

\* UniqueConstraint('session_id', 'student_id', name='unique_attendance')
unconstrained(rows) == TRUE
unique_attendance(rows) ==
    \A a, b \in rows :
        (a.session_id = b.session_id /\ a.student_id = b.student_id) => a = b

\* User.student_profile: the Student rows whose user_id is the user
student_profile(user) == {s \in students : s.user_id = user.id}

-----------------------------------------------------------------------------
(* Responses *)

\* what a handler answers: the status code and the message or error text
Response(code, msg) == [code |-> code, msg |-> msg]

\* the outcome of a handler that writes attendance_records
Fail(code, msg) == [code |-> code, msg |-> msg, records |-> records]
Done(code, msg, rows) == [code |-> code, msg |-> msg, records |-> rows]

-----------------------------------------------------------------------------
(* routes/attendance.py: checkin *)

\* PRESENT, or LATE when the time of day is after the session's start time
late_from_start(now, start_time) == IF now >= start_time THEN LATE ELSE PRESENT
checkin_status(now, start_time) == IF now > start_time THEN LATE ELSE PRESENT

\* the gate: if not session.attendance_open
gate_ignored(session) == FALSE
attendance_closed(session) == ~session.attendance_open

\* Enrollment.query.filter_by(student_id, course_id, is_active=True)
any_enrollment(student_id, course_id) ==
    {e \in enrollments : e.student_id = student_id /\ e.course_id = course_id}
active_enrollment(student_id, course_id) ==
    {e \in enrollments : /\ e.student_id = student_id
                         /\ e.course_id = course_id
                         /\ e.is_active}

\* AttendanceRecord.query.filter_by(session_id, student_id)
no_existing_records(session_id, student_id) == {}
own_existing_records(session_id, student_id) ==
    {r \in records : /\ r.session_id = session_id /\ r.student_id = student_id
                     /\ \E st \in students : st.id = student_id /\ st.user_id = r.marked_by}
existing_records(session_id, student_id) ==
    {r \in records : r.session_id = session_id /\ r.student_id = student_id}

\* db.session.add(row); db.session.commit() on attendance_records
commit_attendance(row, code, msg) ==
    IF unique_attendance(records \cup {row})
    THEN Done(code, msg, records \cup {row})
    ELSE Fail(500, "IntegrityError")

checkin_result(uid, session_id, now, utcnow) ==
    LET current_user_id == get_jwt_identity(uid) IN
    IF \/ ~Has(users, Coerce(current_user_id))
       \/ Get(users, Coerce(current_user_id)).role # STUDENT
    THEN Fail(403, "Only students can check in")
    ELSE LET user == Get(users, Coerce(current_user_id)) IN
    IF student_profile(user) = {}
    THEN Fail(404, "Student profile not found")
    ELSE IF session_id = NULL
    THEN Fail(400, "session_id is required")
    ELSE IF ~Has(sessions, session_id)
    THEN Fail(404, "Session not found")
    ELSE LET session == Get(sessions, session_id)
             profile == First(student_profile(user)) IN
    IF attendance_closed(session)
    THEN Fail(400, "Attendance is not open for this session")
    ELSE IF active_enrollment(profile.id, session.course_id) = {}
    THEN Fail(403, "Not enrolled in this course")
    ELSE IF existing_records(session_id, profile.id) # {}
    THEN Fail(400, "Already checked in")
    ELSE commit_attendance(
             [id |-> NextId(records),
              session_id |-> session_id,
              student_id |-> profile.id,
              status |-> checkin_status(now, session.start_time),
              marked_at |-> utcnow,
              marked_by |-> Coerce(current_user_id),
              notes |-> NoneStr],
             201, "Checked in successfully")

checkin(uid, session_id, now, utcnow) ==
    LET r == checkin_result(uid, session_id, now, utcnow) IN
    /\ Cardinality(r.records) <= MaxRecords
    /\ records' = r.records
    /\ UNCHANGED <<users, students, courses, enrollments, sessions, announcements, requests>>

-----------------------------------------------------------------------------
(* routes/attendance.py: mark_attendance *)

\* the existing row with the lecturer's values written over it
update_keeps_marker(row, status, uid, utcnow, notes) ==
    [row EXCEPT !.status = status, !.marked_at = utcnow, !.notes = notes]
update_keeps_marked_at(row, status, uid, utcnow, notes) ==
    [row EXCEPT !.status = status, !.marked_by = uid, !.notes = notes]
update_record(row, status, uid, utcnow, notes) ==
    [row EXCEPT !.status = status,
                !.marked_by = uid,
                !.marked_at = utcnow,
                !.notes = notes]

mark_attendance_result(uid, session_id, student_id, status, notes, utcnow) ==
    LET current_user_id == get_jwt_identity(uid) IN
    IF \/ ~Has(users, Coerce(current_user_id))
       \/ Get(users, Coerce(current_user_id)).role # LECTURER
    THEN Fail(403, "Only lecturers can mark attendance")
    ELSE IF session_id = MISSING
    THEN Fail(400, "session_id is required")
    ELSE IF student_id = MISSING
    THEN Fail(400, "student_id is required")
    ELSE IF status = NoStatus
    THEN Fail(400, "status is required")
    ELSE IF ~Has(sessions, session_id)
    THEN Fail(404, "Session not found")
    ELSE LET session == Get(sessions, session_id) IN
    IF ~PyEq(PyInt(Get(courses, session.course_id).lecturer_id), int(current_user_id))
    THEN Fail(403, "Unauthorized")
    ELSE IF ~Has(students, student_id)
    THEN Fail(404, "Student not found")
    ELSE IF upper(status) \notin AttendanceStatus
    THEN Fail(400, "Invalid status")
    ELSE IF active_enrollment(student_id, session.course_id) = {}
    THEN Fail(403, "Student not enrolled in this course")
    ELSE IF existing_records(session_id, student_id) # {}
    THEN LET existing_record == First(existing_records(session_id, student_id)) IN
         Done(200, "Attendance updated successfully",
              (records \ {existing_record}) \cup
                  {update_record(existing_record, upper(status),
                                 Coerce(current_user_id), utcnow, notes)})
    ELSE commit_attendance(
             [id |-> NextId(records),
              session_id |-> session_id,
              student_id |-> student_id,
              status |-> upper(status),
              marked_at |-> utcnow,
              marked_by |-> Coerce(current_user_id),
              notes |-> notes],
             201, "Attendance marked successfully")

mark_attendance(uid, session_id, student_id, status, notes, utcnow) ==
    LET r == mark_attendance_result(uid, session_id, student_id, status, notes, utcnow) IN
    /\ Cardinality(r.records) <= MaxRecords
    /\ records' = r.records
    /\ UNCHANGED <<users, students, courses, enrollments, sessions, announcements, requests>>

-----------------------------------------------------------------------------
(* routes/attendance.py: checkin and mark_attendance as two requests served
   at the same time; each reads the table, then commits *)

\* the requests in flight
Requesters == {1, 2}

\* no request has arrived
NoRequests ==
    [p \in Requesters |->
        [stage |-> "idle", handler |-> "", kind |-> "none", pending |-> {}, code |-> 0]]

\* a handler up to db.session.commit(): an error is answered at once; past
\* AttendanceRecord.query.filter_by(session_id, student_id).first() the
\* request holds the row it adds, or the row it has changed
staged(handler, r) ==
    IF r.code \notin {200, 201}
    THEN [stage |-> "done", handler |-> handler, kind |-> "none", pending |-> {},
          code |-> r.code]
    ELSE [stage |-> "checked", handler |-> handler,
          kind |-> IF r.code = 201 THEN "insert" ELSE "update",
          pending |-> r.records \ records, code |-> 0]

begin_checkin(p, uid, session_id, now, utcnow) ==
    /\ requests[p].stage = "idle"
    /\ requests' = [requests EXCEPT
                       ![p] = staged("checkin", checkin_result(uid, session_id, now, utcnow))]
    /\ UNCHANGED <<users, students, courses, enrollments, sessions, records, announcements>>

begin_mark_attendance(p, uid, session_id, student_id, status, notes, utcnow) ==
    /\ requests[p].stage = "idle"
    /\ requests' = [requests EXCEPT
                       ![p] = staged("mark_attendance",
                                     mark_attendance_result(uid, session_id, student_id,
                                                            status, notes, utcnow))]
    /\ UNCHANGED <<users, students, courses, enrollments, sessions, records, announcements>>

\* db.session.commit() of a request: the INSERT takes the next key and is
\* refused by unique_attendance when the pair is stored (the handler rolls
\* back and answers 500); the UPDATE writes the row under its key
commit_result(request) ==
    IF request.pending = {}
    THEN Done(200, "", records)
    ELSE LET row == First(request.pending) IN
         IF request.kind = "insert"
         THEN commit_attendance([row EXCEPT !.id = NextId(records)], 201, "")
         ELSE Done(200, "", {IF x.id = row.id THEN row ELSE x : x \in records})

commit_request(p) ==
    /\ requests[p].stage = "checked"
    /\ LET r == commit_result(requests[p]) IN
       /\ Cardinality(r.records) <= MaxRecords
       /\ records' = r.records
       /\ requests' = [requests EXCEPT ![p].stage = "done", ![p].code = r.code]
    /\ UNCHANGED <<users, students, courses, enrollments, sessions, announcements>>

-----------------------------------------------------------------------------
(* routes/attendance.py: get_course_attendance *)

\* Student.query.join(Enrollment).filter(course_id, is_active): one student
\* per matching enrollment row
enrolled_students(course_id) ==
    LET joined == InKeyOrder({e \in enrollments :
                                 /\ e.course_id = course_id
                                 /\ e.is_active
                                 /\ Has(students, e.student_id)})
    IN [i \in 1..Len(joined) |-> Get(students, joined[i].student_id)]

\* Session.query.filter_by(course_id=course_id).all()
all_sessions(course_id) == InKeyOrder(sessions)
course_sessions(course_id) ==
    InKeyOrder({s \in sessions : s.course_id = course_id})

\* AttendanceRecord.query.join(Session).filter(Session.course_id == course_id)
course_records(course_id) ==
    {r \in records : /\ Has(sessions, r.session_id)
                     /\ Get(sessions, r.session_id).course_id = course_id}

\* the entry synthesized for a student without a record
synthesized == [status |-> ABSENT, marked_at |-> NULL]

\* record.to_dict(), as far as the matrix is read
to_dict(r) == [id |-> r.id, session_id |-> r.session_id,
               student_id |-> r.student_id, status |-> r.status,
               marked_at |-> r.marked_at, marked_by |-> r.marked_by,
               notes |-> r.notes]

\* next((record for record in attendance_records if ...), None)
matrix_cell(attendance_records, student, session) ==
    LET found == {r \in attendance_records :
                     r.student_id = student.id /\ r.session_id = session.id}
    IN [session |-> session.id,
        attendance |-> IF found = {} THEN synthesized ELSE to_dict(First(found))]

\* round(x, 2) of the quotient num / den, in hundredths (ties to even)
round2(num, den) ==
    LET n == num * 100
        q == n \div den
        twice == 2 * (n % den)
    IN IF twice < den THEN q
       ELSE IF twice > den THEN q + 1
       ELSE IF q % 2 = 0 THEN q ELSE q + 1

\* len([r for r in student_records if r['status'] in statuses])
count_status(student_records, statuses) ==
    Cardinality({j \in 1..Len(student_records) : student_records[j].status \in statuses})

\* present_count = len([... if r['status'] in ['PRESENT', 'LATE']])
present_only_count(student_records) == count_status(student_records, {PRESENT})
present_count(student_records) == count_status(student_records, {PRESENT, LATE})

\* (present_count / total_sessions * 100) if total_sessions > 0 else 0,
\* rounded to two places; the value is in hundredths of a percent
attendance_rate(present, total_sessions) ==
    IF total_sessions > 0 THEN round2(present * 100, total_sessions) ELSE 0

\* student_attendance['statistics']
statistics(cells, total_sessions) ==
    LET student_records == [j \in 1..Len(cells) |-> cells[j].attendance] IN
    [total_sessions |-> total_sessions,
     present |-> count_status(student_records, {PRESENT}),
     late |-> count_status(student_records, {LATE}),
     absent |-> count_status(student_records, {ABSENT}),
     attendance_rate |-> attendance_rate(present_count(student_records), total_sessions)]

attendance_matrix(course_id) ==
    LET sess == course_sessions(course_id)
        studs == enrolled_students(course_id)
        recs == course_records(course_id)
        cells(i) == [j \in 1..Len(sess) |-> matrix_cell(recs, studs[i], sess[j])]
    IN [i \in 1..Len(studs) |->
           [student |-> studs[i].id,
            sessions |-> cells(i),
            statistics |-> statistics(cells(i), Len(sess))]]

get_course_attendance_result(uid, course_id) ==
    LET current_user_id == get_jwt_identity(uid) IN
    IF \/ ~Has(users, Coerce(current_user_id))
       \/ Get(users, Coerce(current_user_id)).role \notin {LECTURER, ADMIN}
    THEN Response(403, "Unauthorized")
    ELSE IF ~Has(courses, course_id)
    THEN Response(404, "Course not found")
    ELSE IF /\ Get(users, Coerce(current_user_id)).role = LECTURER
            /\ ~PyEq(PyInt(Get(courses, course_id).lecturer_id), current_user_id)
    THEN Response(403, "Unauthorized")
    ELSE [code |-> 200, msg |-> "",
          course |-> course_id,
          sessions |-> [j \in 1..Len(course_sessions(course_id)) |->
                           course_sessions(course_id)[j].id],
          attendance_matrix |-> attendance_matrix(course_id),
          total_students |-> Len(enrolled_students(course_id)),
          total_sessions |-> Len(course_sessions(course_id)),
          total_records |-> Cardinality(course_records(course_id))]

\* a read: the tables stay as they are
get_course_attendance(uid, course_id) ==
    /\ get_course_attendance_result(uid, course_id).code \in {200, 403, 404}
    /\ UNCHANGED vars

-----------------------------------------------------------------------------
(* routes/attendance.py: get_session_attendance *)

\* AttendanceRecord.query.filter_by(session_id=session_id).all()
all_records(session_id) == records
session_records(session_id) == {r \in records : r.session_id = session_id}

\* 'total_absent': len(enrolled_students) - len(attendance_records)
absent_marked(total_enrolled, attendance_records) ==
    Cardinality({r \in attendance_records : r.status = ABSENT})
total_absent(total_enrolled, attendance_records) ==
    total_enrolled - Cardinality(attendance_records)

\* the entry of one enrolled student in the lecturer's list
attendance_entry(attendance_records, student) ==
    LET found == {r \in attendance_records : r.student_id = student.id}
    IN [student |-> student.id,
        attendance |-> IF found = {} THEN synthesized ELSE to_dict(First(found))]

get_session_attendance_result(uid, session_id) ==
    LET current_user_id == get_jwt_identity(uid) IN
    IF ~Has(users, Coerce(int(current_user_id)))
    THEN Response(404, "User not found")
    ELSE IF ~Has(sessions, session_id)
    THEN Response(404, "Session not found")
    ELSE LET user == Get(users, Coerce(int(current_user_id)))
             session == Get(sessions, session_id) IN
    IF user.role = STUDENT
    THEN IF student_profile(user) = {}
         THEN Response(500, "AttributeError")
         ELSE LET profile == First(student_profile(user)) IN
              IF active_enrollment(profile.id, session.course_id) = {}
              THEN Response(403, "Not enrolled in this course")
              ELSE LET attendance == existing_records(session_id, profile.id) IN
                   [code |-> 200, msg |-> "", session |-> session.id,
                    attendance |-> IF attendance = {} THEN <<>>
                                   ELSE <<to_dict(First(attendance))>>]
    ELSE IF user.role = LECTURER
    THEN IF ~PyEq(PyInt(Get(courses, session.course_id).lecturer_id),
                  int(current_user_id))
         THEN Response(403, "Unauthorized")
         ELSE LET attendance_records == session_records(session_id)
                  studs == enrolled_students(session.course_id)
              IN [code |-> 200, msg |-> "", session |-> session.id,
                  attendance_records |->
                      [i \in 1..Len(studs) |->
                          attendance_entry(attendance_records, studs[i])],
                  total_enrolled |-> Len(studs),
                  total_present |->
                      Cardinality({r \in attendance_records :
                                      r.status \in {PRESENT, LATE}}),
                  total_absent |-> total_absent(Len(studs), attendance_records)]
    ELSE LET attendance_records == InKeyOrder(session_records(session_id))
         IN [code |-> 200, msg |-> "", session |-> session.id,
             attendance_records |->
                 [i \in 1..Len(attendance_records) |-> to_dict(attendance_records[i])]]

\* a read: the tables stay as they are
get_session_attendance(uid, session_id) ==
    /\ get_session_attendance_result(uid, session_id).code \in {200, 403, 404, 500}
    /\ UNCHANGED vars

-----------------------------------------------------------------------------
(* routes/attendance.py: get_student_attendance *)

\* the date strings a request may carry
DateInputs == {NoneStr, "2024-01-01", "2024-01-02", "01/02/2024"}

\* a string strptime(s, '%Y-%m-%d') raises ValueError for
bad_date(s) == s \notin {"2024-01-01", "2024-01-02"}

\* datetime.strptime(s, '%Y-%m-%d').date(), as the day number of the model
strptime(s) == IF s = "2024-01-01" THEN 1 ELSE 2

\* the number of query.join(Session) calls the filters make
joins(course_id, date_from, date_to) ==
    (IF course_id # NULL THEN 1 ELSE 0) + (IF date_from # NoneStr THEN 1 ELSE 0)
        + (IF date_to # NoneStr THEN 1 ELSE 0)

\* AttendanceRecord.query.filter_by(student_id=student_id) with the filters
\* on the joined session
student_records(student_id, course_id, date_from, date_to) ==
    {r \in records :
        /\ r.student_id = student_id
        /\ Has(sessions, r.session_id)
        /\ LET session == Get(sessions, r.session_id) IN
           /\ course_id # NULL => session.course_id = course_id
           /\ date_from # NoneStr => session.session_date >= strptime(date_from)
           /\ date_to # NoneStr => session.session_date <= strptime(date_to)}

\* the filters of get_student_attendance and export_student_attendance up
\* to query.all(); a query that joins Session more than once is answered or
\* raises, as the query builder merges the joins or not
filtered_query(student_id, course_id, date_from, date_to, joins_merge) ==
    IF date_from # NoneStr /\ bad_date(date_from)
    THEN Response(400, "Invalid date_from format")
    ELSE IF date_to # NoneStr /\ bad_date(date_to)
    THEN Response(400, "Invalid date_to format")
    ELSE IF joins(course_id, date_from, date_to) > 1 /\ ~joins_merge
    THEN Response(500, "OperationalError")
    ELSE [code |-> 200, msg |-> "",
          rows |-> student_records(student_id, course_id, date_from, date_to)]

\* the statistics of the student view; the rate is in hundredths of a percent
rate_over_sessions(rows) ==
    LET held == Cardinality(sessions) IN
    IF held > 0
    THEN round2(Cardinality({r \in rows : r.status \in {PRESENT, LATE}}) * 100, held)
    ELSE 0
student_rate(rows) ==
    LET total_sessions == Cardinality(rows)
        present == Cardinality({r \in rows : r.status = PRESENT})
        late == Cardinality({r \in rows : r.status = LATE})
    IN IF total_sessions > 0
       THEN round2((present + late) * 100, total_sessions)
       ELSE 0

student_statistics(rows) ==
    [total_sessions |-> Cardinality(rows),
     present |-> Cardinality({r \in rows : r.status = PRESENT}),
     late |-> Cardinality({r \in rows : r.status = LATE}),
     absent |-> Cardinality({r \in rows : r.status = ABSENT}),
     excused |-> Cardinality({r \in rows : r.status = EXCUSED}),
     attendance_rate |-> student_rate(rows)]

get_student_attendance_result(uid, student_id, course_id, date_from, date_to, joins_merge) ==
    LET current_user_id == get_jwt_identity(uid) IN
    IF ~Has(users, Coerce(current_user_id))
    THEN Response(404, "User not found")
    ELSE LET user == Get(users, Coerce(current_user_id)) IN
    IF user.role = STUDENT /\ student_profile(user) = {}
    THEN Response(500, "AttributeError")
    ELSE IF user.role = STUDENT /\ First(student_profile(user)).id # student_id
    THEN Response(403, "Unauthorized")
    ELSE IF ~Has(students, student_id)
    THEN Response(404, "Student not found")
    ELSE LET q == filtered_query(student_id, course_id, date_from, date_to, joins_merge)
    IN IF q.code # 200 THEN q
       ELSE [code |-> 200, msg |-> "", student |-> student_id,
             attendance_records |-> [i \in 1..Cardinality(q.rows) |->
                                        to_dict(InKeyOrder(q.rows)[i])],
             statistics |-> student_statistics(q.rows)]

\* a read: the tables stay as they are
get_student_attendance(uid, student_id, course_id, date_from, date_to, joins_merge) ==
    /\ get_student_attendance_result(uid, student_id, course_id, date_from, date_to,
                                     joins_merge).code \in {200, 400, 403, 404, 500}
    /\ UNCHANGED vars

-----------------------------------------------------------------------------
(* routes/reports.py: get_attendance_summary *)

\* Enrollment.query.filter_by(course_id=course.id, is_active=True).count()
enrollment_count(course_id) ==
    Cardinality({e \in enrollments : e.course_id = course_id})
enrolled_count(course_id) ==
    Cardinality({e \in enrollments : e.course_id = course_id /\ e.is_active})

\* courses_query with the role and course filters
summary_courses(user, course_id) ==
    {c \in courses :
        /\ user.role = LECTURER => c.lecturer_id = user.id
        /\ course_id # NULL => c.id = course_id}

\* sessions_query with the role, course and date filters
summary_sessions(user, course_id, date_from, date_to) ==
    {s \in sessions :
        /\ user.role = LECTURER =>
              /\ Has(courses, s.course_id)
              /\ Get(courses, s.course_id).lecturer_id = user.id
        /\ course_id # NULL => s.course_id = course_id
        /\ date_from # NoneStr => s.session_date >= strptime(date_from)
        /\ date_to # NoneStr => s.session_date <= strptime(date_to)}

\* one entry of course_summaries; the rate is in hundredths of a percent
course_summary(course, in_scope, attendance_records) ==
    LET course_sessions_ == {s \in in_scope : s.course_id = course.id}
        course_attendance == {r \in attendance_records :
                                 r.session_id \in Ids(course_sessions_)}
        enrolled == enrolled_count(course.id)
        course_present == Cardinality({r \in course_attendance : r.status = PRESENT})
        course_late == Cardinality({r \in course_attendance : r.status = LATE})
        course_total_expected == Cardinality(course_sessions_) * enrolled
    IN [course |-> course.id,
        total_sessions |-> Cardinality(course_sessions_),
        enrolled_students |-> enrolled,
        total_records |-> Cardinality(course_attendance),
        present |-> course_present,
        late |-> course_late,
        absent |-> Cardinality(course_sessions_) * enrolled
                      - Cardinality(course_attendance),
        attendance_rate |->
            IF course_total_expected > 0
            THEN round2((course_present + course_late) * 100, course_total_expected)
            ELSE 0]

get_attendance_summary_result(uid, course_id, date_from, date_to) ==
    LET current_user_id == get_jwt_identity(uid) IN
    IF \/ ~Has(users, Coerce(int(current_user_id)))
       \/ Get(users, Coerce(int(current_user_id))).role \notin {LECTURER, ADMIN}
    THEN Response(403, "Unauthorized")
    ELSE IF date_from # NoneStr /\ bad_date(date_from)
    THEN Response(400, "Invalid date_from format")
    ELSE IF date_to # NoneStr /\ bad_date(date_to)
    THEN Response(400, "Invalid date_to format")
    ELSE LET user == Get(users, Coerce(int(current_user_id)))
             in_scope == summary_sessions(user, course_id, date_from, date_to)
             listed == InKeyOrder(summary_courses(user, course_id))
             attendance_records == {r \in records : r.session_id \in Ids(in_scope)}
         IN [code |-> 200, msg |-> "",
             summary |->
                 [total_courses |-> Len(listed),
                  total_sessions |-> Cardinality(in_scope),
                  total_attendance_records |-> Cardinality(attendance_records),
                  present |-> Cardinality({r \in attendance_records : r.status = PRESENT}),
                  late |-> Cardinality({r \in attendance_records : r.status = LATE}),
                  absent |-> Cardinality({r \in attendance_records : r.status = ABSENT}),
                  excused |-> Cardinality({r \in attendance_records :
                                              r.status = EXCUSED})],
             course_summaries |->
                 [i \in 1..Len(listed) |->
                     course_summary(listed[i], in_scope, attendance_records)]]

\* a read: the tables stay as they are
get_attendance_summary(uid, course_id, date_from, date_to) ==
    /\ get_attendance_summary_result(uid, course_id, date_from, date_to).code
          \in {200, 400, 403}
    /\ UNCHANGED vars

-----------------------------------------------------------------------------
(* routes/reports.py: export_student_attendance *)

\* request.args.get('format', 'excel').lower()
Formats == {"excel", "CSV", "pdf", "html"}
lower_format(f) == IF f = "CSV" THEN "csv" ELSE f

\* record.notes or ''
notes_or_empty(notes) == IF notes = NoneStr THEN "" ELSE notes

\* one row of the exported file: the session's date, course, name and times,
\* and the record's status, stamp and notes; the pdf table has five columns
export_row(record, export_format) ==
    LET session == Get(sessions, record.session_id) IN
    IF export_format = "pdf"
    THEN [Date |-> session.session_date, Course |-> session.course_id,
          Session |-> session.id, Status |-> record.status,
          Time |-> record.marked_at]
    ELSE [Date |-> session.session_date, Course |-> session.course_id,
          Session |-> session.id, StartTime |-> session.start_time,
          EndTime |-> session.end_time, Status |-> record.status,
          MarkedAt |-> record.marked_at, Notes |-> notes_or_empty(record.notes)]

export_student_attendance_result(uid, student_id, format, course_id, date_from, date_to, joins_merge) ==
    LET current_user_id == get_jwt_identity(uid) IN
    IF ~Has(users, Coerce(int(current_user_id)))
    THEN Response(404, "User not found")
    ELSE LET user == Get(users, Coerce(int(current_user_id))) IN
    IF /\ user.role = STUDENT
       /\ student_profile(user) # {}
       /\ First(student_profile(user)).id # student_id
    THEN Response(403, "Unauthorized")
    ELSE IF user.role \notin {STUDENT, LECTURER, ADMIN}
    THEN Response(403, "Unauthorized")
    ELSE IF ~Has(students, student_id)
    THEN Response(404, "Student not found")
    ELSE IF lower_format(format) \notin {"excel", "csv", "pdf"}
    THEN Response(400, "Invalid format. Use excel, csv, or pdf")
    ELSE LET q == filtered_query(student_id, course_id, date_from, date_to, joins_merge)
    IN IF q.code # 200 THEN q
       ELSE LET attendance_records == InKeyOrder(q.rows) IN
            [code |-> 200, msg |-> "", student |-> student_id,
             format |-> lower_format(format),
             data |-> [i \in 1..Len(attendance_records) |->
                          export_row(attendance_records[i], lower_format(format))]]

\* a read: the tables stay as they are
export_student_attendance(uid, student_id, format, course_id, date_from, date_to, joins_merge) ==
    /\ export_student_attendance_result(uid, student_id, format, course_id, date_from,
                                        date_to, joins_merge).code
          \in {200, 400, 403, 404, 500}
    /\ UNCHANGED vars

-----------------------------------------------------------------------------
(* routes/reports.py: export_course_attendance *)

\* order_by(Session.session_date, Session.start_time); rows that tie come
\* in key order
before(a, b) ==
    \/ a.session_date < b.session_date
    \/ a.session_date = b.session_date /\ a.start_time < b.start_time
    \/ a.session_date = b.session_date /\ a.start_time = b.start_time /\ a.id <= b.id

RECURSIVE in_date_order(_)
in_date_order(rows) ==
    IF rows = {} THEN <<>>
    ELSE LET r == CHOOSE x \in rows : \A y \in rows : before(x, y)
         IN <<r>> \o in_date_order(rows \ {r})

\* the sessions in scope: of the course, within the dates given
sessions_in_scope(course_id, date_from, date_to) ==
    in_date_order({s \in sessions :
                      /\ s.course_id = course_id
                      /\ date_from # NoneStr => s.session_date >= strptime(date_from)
                      /\ date_to # NoneStr => s.session_date <= strptime(date_to)})

\* order_by(Student.student_id): the place of a student ID among the others
student_id_rank(student_id) ==
    CASE student_id = "FE22A001" -> 1
      [] student_id = "FE22A002" -> 2
      [] OTHER -> 3

RECURSIVE in_student_id_order(_)
in_student_id_order(rows) ==
    IF rows = {} THEN <<>>
    ELSE LET r == CHOOSE x \in rows : \A y \in rows :
                      student_id_rank(x.student_id) <= student_id_rank(y.student_id)
         IN <<r>> \o in_student_id_order(rows \ {r})

\* Student.query.join(Enrollment).filter(course_id, is_active)
\*     .order_by(Student.student_id)
export_students(course_id) ==
    in_student_id_order({p \in students :
                            \E e \in enrollments : /\ e.student_id = p.id
                                                   /\ e.course_id = course_id
                                                   /\ e.is_active})

\* session_date.strftime('%Y-%m-%d')
strftime(day) == IF day = 1 THEN "2024-01-01" ELSE "2024-01-02"

\* f"{session.session_date.strftime('%Y-%m-%d')} - {session.session_name}"
session_key(session) == strftime(session.session_date) \o " - " \o session.session_name

\* row[key] = value on a dict: a new key goes last, a key that is there
\* keeps its place and takes the value
dict_set(row, key, value) ==
    IF \E i \in DOMAIN row : row[i][1] = key
    THEN [i \in DOMAIN row |-> IF row[i][1] = key THEN <<key, value>> ELSE row[i]]
    ELSE Append(row, <<key, value>>)

\* the columns of a row, in order
keys(row) == [i \in DOMAIN row |-> row[i][1]]

\* the value under a key
dict_get(row, key) == row[CHOOSE i \in DOMAIN row : row[i][1] = key][2]

\* for session in sessions: row[session_key] = status or 'ABSENT'
RECURSIVE add_session_columns(_, _, _, _)
add_session_columns(row, student, sess, attendance_records) ==
    IF sess = <<>> THEN row
    ELSE LET session == Head(sess)
             found == {r \in attendance_records :
                          r.student_id = student.id /\ r.session_id = session.id}
             status == IF found = {} THEN ABSENT ELSE First(found).status
         IN add_session_columns(dict_set(row, session_key(session), status), student,
                                Tail(sess), attendance_records)

\* len([r for r in student_records if r.status in [PRESENT, LATE]])
export_present_count(attendance_records, student) ==
    Cardinality({r \in attendance_records :
                    r.student_id = student.id /\ r.status \in {PRESENT, LATE}})

\* round(x, 1) of the quotient num / den, in tenths (ties to even)
round1(num, den) ==
    LET n == num * 10
        q == n \div den
        twice == 2 * (n % den)
    IN IF twice < den THEN q
       ELSE IF twice > den THEN q + 1
       ELSE IF q % 2 = 0 THEN q ELSE q + 1

\* one row of the csv or excel file; the names, the department and the
\* year are read from the student's rows
course_export_row(student, sess, attendance_records) ==
    LET identity == <<<<"Student ID", student.student_id>>,
                      <<"First Name", student.user_id>>,
                      <<"Last Name", student.user_id>>,
                      <<"Department", student.id>>,
                      <<"Year of Study", student.id>>>>
        with_sessions == add_session_columns(identity, student, sess, attendance_records)
        present == export_present_count(attendance_records, student)
        total_sessions == Len(sess)
        rate == IF total_sessions > 0 THEN round2(present * 100, total_sessions) ELSE 0
    IN dict_set(dict_set(dict_set(dict_set(with_sessions,
            "Total Sessions", total_sessions),
            "Present/Late", present),
            "Absent", total_sessions - present),
            "Attendance Rate (%)", rate)

\* one line of the pdf table, which has no session columns
course_pdf_row(student, sess, attendance_records) ==
    LET present == export_present_count(attendance_records, student)
        total_sessions == Len(sess)
    IN <<<<"Student ID", student.student_id>>, <<"Name", student.user_id>>,
         <<"Department", student.id>>, <<"Present/Late", present>>,
         <<"Absent", total_sessions - present>>,
         <<"Rate (%)", IF total_sessions > 0
                       THEN round1(present * 100, total_sessions) ELSE 0>>>>

export_course_attendance_result(uid, course_id, format, date_from, date_to) ==
    LET current_user_id == get_jwt_identity(uid) IN
    IF \/ ~Has(users, Coerce(int(current_user_id)))
       \/ Get(users, Coerce(int(current_user_id))).role \notin {LECTURER, ADMIN}
    THEN Response(403, "Unauthorized")
    ELSE IF ~Has(courses, course_id)
    THEN Response(404, "Course not found")
    ELSE IF /\ Get(users, Coerce(int(current_user_id))).role = LECTURER
            /\ ~PyEq(PyInt(Get(courses, course_id).lecturer_id), int(current_user_id))
    THEN Response(403, "Unauthorized")
    ELSE IF lower_format(format) \notin {"excel", "csv", "pdf"}
    THEN Response(400, "Invalid format. Use excel, csv, or pdf")
    ELSE IF date_from # NoneStr /\ bad_date(date_from)
    THEN Response(400, "Invalid date_from format")
    ELSE IF date_to # NoneStr /\ bad_date(date_to)
    THEN Response(400, "Invalid date_to format")
    ELSE
    LET sess == sessions_in_scope(course_id, date_from, date_to)
        enrolled == export_students(course_id)
        attendance_records ==
            {r \in records : \E j \in 1..Len(sess) : sess[j].id = r.session_id}
    IN [code |-> 200, msg |-> "", format |-> lower_format(format),
        data |-> [i \in 1..Len(enrolled) |->
                     IF lower_format(format) = "pdf"
                     THEN course_pdf_row(enrolled[i], sess, attendance_records)
                     ELSE course_export_row(enrolled[i], sess, attendance_records)]]

\* a read: the tables stay as they are
export_course_attendance(uid, course_id, format, date_from, date_to) ==
    /\ export_course_attendance_result(uid, course_id, format, date_from, date_to).code
          \in {200, 400, 403, 404}
    /\ UNCHANGED vars

-----------------------------------------------------------------------------
(* routes/announcements.py: create_announcement, update_announcement,
   delete_announcement *)

\* Announcement(title, content, author_id, course_id, is_global, priority);
\* is_active defaults to True
announcement_for_owner(rows, author_id, title, content, course_id, is_global, priority) ==
    [id |-> NextId(rows), title |-> title, content |-> content,
     author_id |-> IF Has(courses, course_id)
                   THEN Get(courses, course_id).lecturer_id ELSE author_id,
     course_id |-> course_id, is_global |-> is_global, priority |-> priority,
     is_active |-> TRUE]
new_announcement(rows, author_id, title, content, course_id, is_global, priority) ==
    [id |-> NextId(rows), title |-> title, content |-> content,
     author_id |-> author_id, course_id |-> course_id, is_global |-> is_global,
     priority |-> priority, is_active |-> TRUE]

create_announcement_result(uid, title, content, course_id, is_global, priority) ==
    LET current_user_id == get_jwt_identity(uid)
        Same(code, msg) == [code |-> code, msg |-> msg, announcements |-> announcements]
    IN
    IF \/ ~Has(users, Coerce(int(current_user_id)))
       \/ Get(users, Coerce(int(current_user_id))).role \notin {ADMIN, LECTURER}
    THEN Same(403, "Unauthorized")
    ELSE LET user == Get(users, Coerce(int(current_user_id))) IN
    IF title \in {NoneStr, ""}
    THEN Same(400, "title is required")
    ELSE IF content \in {NoneStr, ""}
    THEN Same(400, "content is required")
    ELSE IF ~is_global /\ course_id = NULL
    THEN Same(400, "course_id is required for course-specific announcements")
    ELSE IF course_id # NULL /\ ~Has(courses, course_id)
    THEN Same(404, "Course not found")
    ELSE IF /\ course_id # NULL
            /\ user.role = LECTURER
            /\ ~PyEq(PyInt(Get(courses, course_id).lecturer_id), int(current_user_id))
    THEN Same(403, "Unauthorized - not your course")
    ELSE IF is_global /\ user.role # ADMIN
    THEN Same(403, "Only admins can create global announcements")
    ELSE [code |-> 201, msg |-> "Announcement created successfully",
          announcements |->
              announcements \cup
                  {new_announcement(announcements, Coerce(int(current_user_id)), title,
                                    content, course_id, is_global, priority)}]

create_announcement(uid, title, content, course_id, is_global, priority) ==
    LET r == create_announcement_result(uid, title, content, course_id, is_global,
                                        priority) IN
    /\ Cardinality(r.announcements) <= MaxAnnouncements
    /\ announcements' = r.announcements
    /\ UNCHANGED <<users, students, courses, enrollments, sessions, records, requests>>

\* the checks update_announcement and delete_announcement make first
announcement_access(uid, announcement_id, what) ==
    LET current_user_id == get_jwt_identity(uid) IN
    IF \/ ~Has(users, Coerce(int(current_user_id)))
       \/ Get(users, Coerce(int(current_user_id))).role \notin {ADMIN, LECTURER}
    THEN [code |-> 403, msg |-> "Unauthorized"]
    ELSE IF ~Has(announcements, announcement_id)
    THEN [code |-> 404, msg |-> "Announcement not found"]
    ELSE IF /\ Get(users, Coerce(int(current_user_id))).role = LECTURER
            /\ ~PyEq(PyInt(Get(announcements, announcement_id).author_id),
                     int(current_user_id))
    THEN [code |-> 403, msg |-> what]
    ELSE [code |-> 200, msg |-> ""]

\* the fields a PUT body sets: the keys of data that are present
apply_update(row, data) ==
    [f \in DOMAIN row |->
        IF f \in {"title", "content", "priority", "is_active"} /\ f \in DOMAIN data
        THEN data[f] ELSE row[f]]

update_announcement_result(uid, announcement_id, data) ==
    LET a == announcement_access(uid, announcement_id,
                                 "Can only edit your own announcements")
    IN IF a.code # 200
       THEN [code |-> a.code, msg |-> a.msg, announcements |-> announcements]
       ELSE LET row == Get(announcements, announcement_id) IN
            [code |-> 200, msg |-> "Announcement updated successfully",
             announcements |-> (announcements \ {row}) \cup {apply_update(row, data)}]

update_announcement(uid, announcement_id, data) ==
    /\ announcements' = update_announcement_result(uid, announcement_id, data).announcements
    /\ UNCHANGED <<users, students, courses, enrollments, sessions, records, requests>>

delete_announcement_result(uid, announcement_id) ==
    LET a == announcement_access(uid, announcement_id,
                                 "Can only delete your own announcements")
    IN IF a.code # 200
       THEN [code |-> a.code, msg |-> a.msg, announcements |-> announcements]
       ELSE LET row == Get(announcements, announcement_id) IN
            [code |-> 200, msg |-> "Announcement deleted successfully",
             announcements |-> (announcements \ {row})
                                  \cup {[row EXCEPT !.is_active = FALSE]}]

delete_announcement(uid, announcement_id) ==
    /\ announcements' = delete_announcement_result(uid, announcement_id).announcements
    /\ UNCHANGED <<users, students, courses, enrollments, sessions, records, requests>>

-----------------------------------------------------------------------------
(* routes/courses.py: enroll_student *)

\* Enrollment.query.filter_by(student_id, course_id)
no_existing_enrollment(student_id, course_id) == {}
existing_enrollment(student_id, course_id) ==
    {e \in enrollments : e.student_id = student_id /\ e.course_id = course_id}

\* db.session.add(Enrollment(student_id, course_id)); the flag defaults to True
add_enrollment(rows, student_id, course_id) ==
    rows \cup {[id |-> NextId(rows), student_id |-> student_id,
                course_id |-> course_id, is_active |-> TRUE]}

\* existing_enrollment.is_active = True
reactivate_as_new(rows, row) ==
    rows \cup {[row EXCEPT !.is_active = TRUE, !.id = NextId(rows)]}
reactivate(rows, row) == (rows \ {row}) \cup {[row EXCEPT !.is_active = TRUE]}

enroll_student_result(uid, course_id) ==
    LET current_user_id == get_jwt_identity(uid)
        Same(code, msg) == [code |-> code, msg |-> msg, enrollments |-> enrollments]
    IN
    IF \/ ~Has(users, Coerce(int(current_user_id)))
       \/ Get(users, Coerce(int(current_user_id))).role # STUDENT
    THEN Same(403, "Only students can enroll")
    ELSE LET user == Get(users, Coerce(int(current_user_id))) IN
    IF student_profile(user) = {}
    THEN Same(404, "Student profile not found")
    ELSE IF ~Has(courses, course_id)
    THEN Same(404, "Course not found")
    ELSE IF Get(courses, course_id).status # ACTIVE
    THEN Same(400, "Course is not active")
    ELSE LET profile == First(student_profile(user))
             existing == existing_enrollment(profile.id, course_id) IN
    IF existing # {}
    THEN IF First(existing).is_active
         THEN Same(400, "Already enrolled in this course")
         ELSE [code |-> 200, msg |-> "Enrollment reactivated",
               enrollments |-> reactivate(enrollments, First(existing))]
    ELSE IF unique_enrollment(add_enrollment(enrollments, profile.id, course_id))
    THEN [code |-> 201, msg |-> "Enrolled successfully",
          enrollments |-> add_enrollment(enrollments, profile.id, course_id)]
    ELSE Same(500, "IntegrityError")

enroll_student(uid, course_id) ==
    LET r == enroll_student_result(uid, course_id) IN
    /\ enrollments' = r.enrollments
    /\ UNCHANGED <<users, students, courses, sessions, records, announcements, requests>>

-----------------------------------------------------------------------------
(* routes/sessions.py: start_session, end_session, create_session,
   update_session, delete_session *)

\* the checks start_session and end_session make first; 200 when they pass
session_access(uid, session_id, what) ==
    LET current_user_id == get_jwt_identity(uid) IN
    IF \/ ~Has(users, Coerce(int(current_user_id)))
       \/ Get(users, Coerce(int(current_user_id))).role # LECTURER
    THEN [code |-> 403, msg |-> what]
    ELSE IF ~Has(sessions, session_id)
    THEN [code |-> 404, msg |-> "Session not found"]
    ELSE IF ~PyEq(PyInt(Get(courses, Get(sessions, session_id).course_id).lecturer_id),
                  int(current_user_id))
    THEN [code |-> 403, msg |-> "Unauthorized"]
    ELSE [code |-> 200, msg |-> ""]

set_attendance_open(session_id, open) ==
    {IF s.id = session_id THEN [s EXCEPT !.attendance_open = open] ELSE s : s \in sessions}

start_session_result(uid, session_id) ==
    LET a == session_access(uid, session_id, "Only lecturers can start sessions")
        Same(code, msg) == [code |-> code, msg |-> msg, sessions |-> sessions]
    IN
    IF a.code # 200 THEN Same(a.code, a.msg)
    ELSE IF Get(sessions, session_id).attendance_open
    THEN Same(400, "Session already started")
    ELSE [code |-> 200, msg |-> "Session started successfully",
          sessions |-> set_attendance_open(session_id, TRUE)]

start_session(uid, session_id) ==
    /\ sessions' = start_session_result(uid, session_id).sessions
    /\ UNCHANGED <<users, students, courses, enrollments, records, announcements, requests>>

end_session_result(uid, session_id) ==
    LET a == session_access(uid, session_id, "Only lecturers can end sessions")
        Same(code, msg) == [code |-> code, msg |-> msg, sessions |-> sessions]
    IN
    IF a.code # 200 THEN Same(a.code, a.msg)
    ELSE IF ~Get(sessions, session_id).attendance_open
    THEN Same(400, "Session not started yet")
    ELSE [code |-> 200, msg |-> "Session ended successfully",
          sessions |-> set_attendance_open(session_id, FALSE)]

end_session(uid, session_id) ==
    /\ sessions' = end_session_result(uid, session_id).sessions
    /\ UNCHANGED <<users, students, courses, enrollments, records, announcements, requests>>

\* the clock strings a request may carry
TimeInputs == {NoneStr, "", "08:00", "09:00", "10:00", "9am"}

\* a string strptime(s, '%H:%M') raises ValueError for
bad_time(s) == s \notin {"08:00", "09:00", "10:00"}

\* datetime.strptime(s, '%H:%M').time(), as the hour of the model
strptime_time(s) == IF s = "08:00" THEN 0 ELSE IF s = "09:00" THEN 1 ELSE 2

\* Session(course_id, session_name, session_date, start_time, end_time);
\* attendance_open defaults to False
new_session_open(rows, course_id, session_name, session_date, start_time, end_time) ==
    [id |-> NextId(rows), course_id |-> course_id, session_name |-> session_name,
     session_date |-> session_date, start_time |-> start_time,
     end_time |-> end_time, attendance_open |-> TRUE]
new_session(rows, course_id, session_name, session_date, start_time, end_time) ==
    [id |-> NextId(rows), course_id |-> course_id, session_name |-> session_name,
     session_date |-> session_date, start_time |-> start_time,
     end_time |-> end_time, attendance_open |-> FALSE]

\* start_time >= end_time
any_times(start_time, end_time) == FALSE
times_out_of_order(start_time, end_time) == start_time >= end_time

create_session_result(uid, course_id, session_name, session_date, start_time, end_time) ==
    LET current_user_id == get_jwt_identity(uid)
        Same(code, msg) == [code |-> code, msg |-> msg, sessions |-> sessions]
    IN
    IF \/ ~Has(users, Coerce(int(current_user_id)))
       \/ Get(users, Coerce(int(current_user_id))).role # LECTURER
    THEN Same(403, "Only lecturers can create sessions")
    ELSE IF course_id = NULL
    THEN Same(400, "course_id is required")
    ELSE IF session_name \in {NoneStr, ""}
    THEN Same(400, "session_name is required")
    ELSE IF session_date \in {NoneStr, ""}
    THEN Same(400, "session_date is required")
    ELSE IF start_time \in {NoneStr, ""}
    THEN Same(400, "start_time is required")
    ELSE IF end_time \in {NoneStr, ""}
    THEN Same(400, "end_time is required")
    ELSE IF ~Has(courses, course_id)
    THEN Same(404, "Course not found")
    ELSE IF ~PyEq(PyInt(Get(courses, course_id).lecturer_id), int(current_user_id))
    THEN Same(403, "Unauthorized - not your course")
    ELSE IF bad_date(session_date) \/ bad_time(start_time) \/ bad_time(end_time)
    THEN Same(400, "Invalid date/time format")
    ELSE IF times_out_of_order(strptime_time(start_time), strptime_time(end_time))
    THEN Same(400, "Start time must be before end time")
    ELSE [code |-> 201, msg |-> "Session created successfully",
          sessions |->
              sessions \cup
                  {new_session(sessions, course_id, session_name, strptime(session_date),
                               strptime_time(start_time), strptime_time(end_time))}]

create_session(uid, course_id, session_name, session_date, start_time, end_time) ==
    LET r == create_session_result(uid, course_id, session_name, session_date,
                                   start_time, end_time) IN
    /\ \A s \in r.sessions : s.id <= MaxSessions
    /\ sessions' = r.sessions
    /\ UNCHANGED <<users, students, courses, enrollments, records, announcements, requests>>

\* a handler that returns without db.session.commit(): the assignments it
\* made to the loaded row are dropped with the request
keep_pending(committed, pending) == pending
discard(committed, pending) == committed

\* one "if '<field>' in data" block of update_session on the loaded row;
\* parse is the conversion the block applies (None raises TypeError)
assign_field(step, data, field, bad, parse, msg) ==
    IF step.code # 200 \/ field \notin DOMAIN data THEN step
    ELSE IF data[field] = NoneStr
    THEN [step EXCEPT !.code = 500, !.msg = "TypeError"]
    ELSE IF bad[data[field]]
    THEN [step EXCEPT !.code = 400, !.msg = msg]
    ELSE [step EXCEPT !.row = [@ EXCEPT ![field] = parse[data[field]]]]

\* the values a PUT body may give to a session's fields
SessionValues == DateInputs \cup TimeInputs \cup {"Lab"}

update_session_result(uid, session_id, data) ==
    LET a == session_access(uid, session_id, "Only lecturers can update sessions")
        Same(code, msg) == [code |-> code, msg |-> msg, sessions |-> sessions]
    IN
    IF a.code # 200 THEN Same(a.code, a.msg)
    ELSE
    LET session == Get(sessions, session_id)
        named == [code |-> 200, msg |-> "",
                  row |-> IF "session_name" \in DOMAIN data
                          THEN [session EXCEPT !.session_name = data.session_name]
                          ELSE session]
        dated == assign_field(named, data, "session_date",
                              [v \in SessionValues |-> bad_date(v)],
                              [v \in SessionValues |-> strptime(v)],
                              "Invalid date format")
        started == assign_field(dated, data, "start_time",
                                [v \in SessionValues |-> bad_time(v)],
                                [v \in SessionValues |-> strptime_time(v)],
                                "Invalid start_time format")
        ended == assign_field(started, data, "end_time",
                              [v \in SessionValues |-> bad_time(v)],
                              [v \in SessionValues |-> strptime_time(v)],
                              "Invalid end_time format")
        pending == (sessions \ {session}) \cup {ended.row}
    IN
    IF ended.code # 200
    THEN [code |-> ended.code, msg |-> ended.msg, sessions |-> discard(sessions, pending)]
    ELSE IF times_out_of_order(ended.row.start_time, ended.row.end_time)
    THEN [code |-> 400, msg |-> "Start time must be before end time",
          sessions |-> discard(sessions, pending)]
    ELSE [code |-> 200, msg |-> "Session updated successfully", sessions |-> pending]

update_session(uid, session_id, data) ==
    /\ sessions' = update_session_result(uid, session_id, data).sessions
    /\ UNCHANGED <<users, students, courses, enrollments, records, announcements, requests>>

\* Session.attendance_records has cascade='all, delete-orphan': the rows
\* of attendance_records that db.session.delete(session) leaves
keep_records(rows, session_id) == rows
cascade_delete(rows, session_id) == {r \in rows : r.session_id # session_id}

delete_session_result(uid, session_id) ==
    LET a == session_access(uid, session_id, "Only lecturers can delete sessions") IN
    IF a.code # 200
    THEN [code |-> a.code, msg |-> a.msg, sessions |-> sessions, records |-> records]
    ELSE [code |-> 200, msg |-> "Session deleted successfully",
          sessions |-> sessions \ {Get(sessions, session_id)},
          records |-> cascade_delete(records, session_id)]

delete_session(uid, session_id) ==
    LET r == delete_session_result(uid, session_id) IN
    /\ sessions' = r.sessions
    /\ records' = r.records
    /\ UNCHANGED <<users, students, courses, enrollments, announcements, requests>>

-----------------------------------------------------------------------------
(* routes/uploads.py: upload_students *)

\* the matricules and e-mail addresses a sheet may carry
Matricules == {"FE22A001", "FE22A002", "FE22A003", "FE23A004", "22A003"}
Emails == {"s1@uni.cm", "S1@uni.cm", "l1@uni.cm", "new@uni.cm", "nobody"}

\* re.match(r'^FE\d{2}A\d{3}$', student_id)
validate_student_id(student_id) ==
    student_id \in {"FE22A001", "FE22A002", "FE22A003", "FE23A004"}

\* str(row['email']).strip().lower()
lower(email) == IF email = "S1@uni.cm" THEN "s1@uni.cm" ELSE email

\* '@' in email
has_at(email) == email # "nobody"

\* filename.rsplit('.', 1)[1].lower() in ALLOWED_EXTENSIONS
allowed_file(filename) == filename \in {"list.csv", "list.xlsx"}

Filenames == {NoneStr, "", "list.pdf", "list.csv"}

\* one row of the sheet, applied to the session's pending state
process_row(db, course_id, row) ==
    IF ~validate_student_id(row.student_id) THEN db
    ELSE IF ~has_at(lower(row.email)) THEN db
    ELSE LET existing_student == {s \in db.students : s.student_id = row.student_id} IN
    IF existing_student # {}
    THEN LET student == First(existing_student)
             existing == {e \in db.enrollments :
                             e.student_id = student.id /\ e.course_id = course_id}
         IN IF existing # {}
            THEN IF ~First(existing).is_active
                 THEN [db EXCEPT !.enrollments = reactivate(@, First(existing))]
                 ELSE db
            ELSE [db EXCEPT !.enrollments = add_enrollment(@, student.id, course_id)]
    ELSE LET existing_user == {u \in db.users : u.email = lower(row.email)} IN
    IF existing_user # {}
    THEN IF First(existing_user).role # STUDENT THEN db
         ELSE [db EXCEPT
                 !.students = @ \cup {[id |-> NextId(db.students),
                                       user_id |-> First(existing_user).id,
                                       student_id |-> row.student_id]},
                 !.enrollments = add_enrollment(@, NextId(db.students), course_id)]
    ELSE [db EXCEPT
            !.users = @ \cup {[id |-> NextId(db.users), email |-> lower(row.email),
                               role |-> STUDENT]},
            !.students = @ \cup {[id |-> NextId(db.students),
                                  user_id |-> NextId(db.users),
                                  student_id |-> row.student_id]},
            !.enrollments = add_enrollment(@, NextId(db.students), course_id)]

\* for index, row in df.iterrows()
RECURSIVE process_rows(_, _, _)
process_rows(db, course_id, rows) ==
    IF rows = <<>> THEN db
    ELSE process_rows(process_row(db, course_id, Head(rows)), course_id, Tail(rows))

RowLists ==
    UNION {[1..n -> [student_id : Matricules, email : Emails]] : n \in 0..MaxRows}

upload_students_result(uid, filename, course_id, rows) ==
    LET current_user_id == get_jwt_identity(uid)
        Same(code, msg) == [code |-> code, msg |-> msg, users |-> users,
                            students |-> students, enrollments |-> enrollments]
    IN
    IF \/ ~Has(users, Coerce(current_user_id))
       \/ Get(users, Coerce(current_user_id)).role # LECTURER
    THEN Same(403, "Only lecturers can upload student lists")
    ELSE IF filename = NoneStr
    THEN Same(400, "No file provided")
    ELSE IF filename = ""
    THEN Same(400, "No file selected")
    ELSE IF ~allowed_file(filename)
    THEN Same(400, "Invalid file format")
    ELSE IF course_id = NULL
    THEN Same(400, "course_id is required")
    ELSE IF ~Has(courses, course_id)
    THEN Same(404, "Course not found")
    ELSE IF ~PyEq(PyInt(Get(courses, course_id).lecturer_id), current_user_id)
    THEN Same(403, "Unauthorized - not your course")
    ELSE LET db == process_rows([users |-> users, students |-> students,
                                 enrollments |-> enrollments], course_id, rows)
         IN [code |-> 200, msg |-> "Student upload completed", users |-> db.users,
             students |-> db.students, enrollments |-> db.enrollments]

upload_students(uid, filename, course_id, rows) ==
    LET r == upload_students_result(uid, filename, course_id, rows) IN
    /\ users' = r.users
    /\ students' = r.students
    /\ enrollments' = r.enrollments
    /\ UNCHANGED <<courses, sessions, records, announcements, requests>>

-----------------------------------------------------------------------------
(* routes/auth.py: register *)

\* the values of a registration
RegisterEmails == {NoneStr, "nobody", "s1@uni.cm", "new@uni.cm"}
RoleInputs == {NoneStr, "student", "LECTURER", "ADMIN", "dean"}
DepartmentInputs == {NoneStr, "computer_software", "zz"}

\* re.match(r'^[a-zA-Z0-9._%+-]+@[a-zA-Z0-9.-]+\.[a-zA-Z]{2,}$', email)
validate_email(email) == email \in {"s1@uni.cm", "new@uni.cm"}

\* data['role'].upper()
upper_role(text) == IF text = "student" THEN STUDENT ELSE text

\* Department(student_data.get('department', '').upper()) raises ValueError
bad_department(department) == department # "computer_software"

\* Student(user_id=user.id, student_id=student_id, ...)
profile_of_first_user(rows, user_id, student_id) ==
    [id |-> NextId(rows), user_id |-> 4, student_id |-> student_id]
new_student(rows, user_id, student_id) ==
    [id |-> NextId(rows), user_id |-> user_id, student_id |-> student_id]

register_result(email, role, student_id, department) ==
    LET Same(code, msg) == [code |-> code, msg |-> msg, users |-> users,
                            students |-> students]
    IN
    IF email = NoneStr
    THEN Same(400, "email is required")
    ELSE IF role = NoneStr
    THEN Same(400, "role is required")
    ELSE IF ~validate_email(email)
    THEN Same(400, "Invalid email format")
    ELSE IF \E u \in users : u.email = email
    THEN Same(400, "Email already registered")
    ELSE IF upper_role(role) \notin {ADMIN, LECTURER, STUDENT}
    THEN Same(400, "Invalid role")
    ELSE
    LET user == [id |-> NextId(users), email |-> email, role |-> upper_role(role)]
        \* db.session.add(user); db.session.flush()
        flushed == users \cup {user}
        Dropped(code, msg) == [code |-> code, msg |-> msg,
                               users |-> discard(users, flushed),
                               students |-> students]
    IN
    IF user.role # STUDENT
    THEN [code |-> 201, msg |-> "User registered successfully", users |-> flushed,
          students |-> students]
    ELSE IF student_id = NoneStr \/ ~validate_student_id(student_id)
    THEN Dropped(400, "Invalid student ID format (should be FE22A111)")
    ELSE IF \E p \in students : p.student_id = student_id
    THEN Dropped(400, "Student ID already exists")
    ELSE IF bad_department(department)
    THEN Dropped(400, "Invalid department")
    ELSE [code |-> 201, msg |-> "User registered successfully", users |-> flushed,
          students |-> students \cup {new_student(students, user.id, student_id)}]

register(email, role, student_id, department) ==
    LET r == register_result(email, role, student_id, department) IN
    /\ \A u \in r.users : u.id <= MaxUsers
    /\ users' = r.users
    /\ students' = r.students
    /\ UNCHANGED <<courses, enrollments, sessions, records, announcements, requests>>

-----------------------------------------------------------------------------
(* routes/courses.py: update_course *)

\* CourseStatus(data['status'].upper())
upper_status(text) ==
    IF text = "active" THEN ACTIVE ELSE IF text = "completed" THEN COMPLETED ELSE text

update_course_result(uid, course_id, data) ==
    LET current_user_id == get_jwt_identity(uid)
        Same(code, msg) == [code |-> code, msg |-> msg, courses |-> courses]
    IN
    IF \/ ~Has(users, Coerce(int(current_user_id)))
       \/ Get(users, Coerce(int(current_user_id))).role \notin {ADMIN, LECTURER}
    THEN Same(403, "Unauthorized")
    ELSE IF ~Has(courses, course_id)
    THEN Same(404, "Course not found")
    ELSE IF /\ Get(users, Coerce(int(current_user_id))).role = LECTURER
            /\ ~PyEq(PyInt(Get(courses, course_id).lecturer_id), int(current_user_id))
    THEN Same(403, "Unauthorized")
    ELSE
    LET course == Get(courses, course_id)
        named == IF "course_name" \in DOMAIN data
                 THEN [course EXCEPT !.course_name = data.course_name] ELSE course
        pending(row) == (courses \ {course}) \cup {row}
    IN
    IF "status" \notin DOMAIN data
    THEN [code |-> 200, msg |-> "Course updated successfully", courses |-> pending(named)]
    ELSE IF data.status = NoneStr
    THEN [code |-> 500, msg |-> "AttributeError",
          courses |-> discard(courses, pending(named))]
    ELSE IF upper_status(data.status) \notin {ACTIVE, INACTIVE, COMPLETED}
    THEN [code |-> 400, msg |-> "Invalid status",
          courses |-> discard(courses, pending(named))]
    ELSE [code |-> 200, msg |-> "Course updated successfully",
          courses |-> pending([named EXCEPT !.status = upper_status(data.status)])]

update_course(uid, course_id, data) ==
    /\ courses' = update_course_result(uid, course_id, data).courses
    /\ UNCHANGED <<users, students, enrollments, sessions, records, announcements, requests>>

-----------------------------------------------------------------------------
(* The store the requests run against *)

SeedUsers ==
    {[id |-> 1, email |-> "admin@uni.cm", role |-> ADMIN],
     [id |-> 2, email |-> "l1@uni.cm", role |-> LECTURER],
     [id |-> 3, email |-> "l2@uni.cm", role |-> LECTURER],
     [id |-> 4, email |-> "s1@uni.cm", role |-> STUDENT],
     [id |-> 5, email |-> "s2@uni.cm", role |-> STUDENT],
     [id |-> 6, email |-> "s3@uni.cm", role |-> STUDENT]}

\* users 4 and 5 have a profile, user 6 has none
SeedStudents ==
    {[id |-> 1, user_id |-> 4, student_id |-> "FE22A001"],
     [id |-> 2, user_id |-> 5, student_id |-> "FE22A002"]}

SeedCourses ==
    {[id |-> 1, course_name |-> "Networks", lecturer_id |-> 2, status |-> ACTIVE],
     [id |-> 2, course_name |-> "Networks", lecturer_id |-> 3, status |-> ACTIVE],
     [id |-> 3, course_name |-> "Networks", lecturer_id |-> 2, status |-> COMPLETED]}

\* two closed sessions; the second one is of course 1 or of course 2
SeedSessions(c) ==
    {[id |-> 1, course_id |-> 1, session_name |-> "Lecture", session_date |-> 1,
      start_time |-> 1, end_time |-> 2, attendance_open |-> FALSE],
     [id |-> 2, course_id |-> c, session_name |-> "Lecture", session_date |-> 2,
      start_time |-> 0, end_time |-> 1, attendance_open |-> FALSE]}

\* the enrollment table before any request: empty, or one deactivated row
SeedEnrollments ==
    {{},
     {[id |-> 5, student_id |-> 1, course_id |-> 1, is_active |-> FALSE]},
     {[id |-> 5, student_id |-> 2, course_id |-> 2, is_active |-> FALSE]},
     {[id |-> 5, student_id |-> 1, course_id |-> 3, is_active |-> TRUE]}}

\* rosters the enrollment requests lead to
SeedRosters ==
    {{[id |-> 1, student_id |-> 1, course_id |-> 1, is_active |-> TRUE]},
     {[id |-> 1, student_id |-> 1, course_id |-> 1, is_active |-> TRUE],
      [id |-> 2, student_id |-> 2, course_id |-> 1, is_active |-> TRUE]},
     {[id |-> 1, student_id |-> 1, course_id |-> 1, is_active |-> TRUE],
      [id |-> 2, student_id |-> 2, course_id |-> 1, is_active |-> FALSE],
      [id |-> 3, student_id |-> 2, course_id |-> 2, is_active |-> TRUE]}}

\* a roster over both courses, with a deactivated row
SeedViewRoster ==
    {[id |-> 1, student_id |-> 1, course_id |-> 1, is_active |-> TRUE],
     [id |-> 2, student_id |-> 2, course_id |-> 1, is_active |-> TRUE],
     [id |-> 3, student_id |-> 2, course_id |-> 2, is_active |-> TRUE],
     [id |-> 4, student_id |-> 1, course_id |-> 2, is_active |-> FALSE]}

\* the values of an announcement request
Titles == {NoneStr, "", "Exam"}
Contents == {NoneStr, "Room 2"}
Priorities == {"normal", "high"}
AnnouncementIds == 1..(MaxAnnouncements + 1)
UpdateBodies ==
    {[title |-> "Moved"], [is_active |-> TRUE, priority |-> "high"]}

\* the bodies of a PUT on a course
CourseBodies ==
    {[course_name |-> "Nets"], [status |-> "active"], [status |-> "completed"],
     [course_name |-> "Nets", status |-> "bogus"], [status |-> NoneStr]}

\* the bodies of a POST of a session: session_name, session_date,
\* start_time, end_time
SessionForms ==
    {<<"Lecture", "2024-01-01", "09:00", "10:00">>,
     <<NoneStr, "2024-01-01", "09:00", "10:00">>,
     <<"Lab", "01/02/2024", "09:00", "10:00">>,
     <<"Lab", "2024-01-01", "9am", "10:00">>,
     <<"Lab", "2024-01-01", "09:00", NoneStr>>,
     <<"Lab", "2024-01-01", "10:00", "09:00">>,
     <<"Lab", "2024-01-01", "10:00", "10:00">>}

\* the bodies of a PUT on a session
SessionBodies ==
    {[start_time |-> "10:00"], [end_time |-> "08:00"], [end_time |-> "10:00"],
     [session_name |-> "Lab", end_time |-> "08:00"],
     [start_time |-> "08:00", end_time |-> "10:00"],
     [session_name |-> "Lab", session_date |-> "01/02/2024"],
     [session_date |-> "2024-01-02", start_time |-> "9am"],
     [start_time |-> NoneStr]}

UserIds == 1..6
SessionIds == 1..3
StudentIds == 1..3
CourseIds == 1..4
StatusInputs == AttendanceStatus \cup {"late", "absnt", NoStatus}
Notes == {NoneStr, "sick"}

\* attendance is taken against a roster that is already there
Init ==
    /\ users = SeedUsers
    /\ students = SeedStudents
    /\ courses = SeedCourses
    /\ enrollments \in SeedRosters
    /\ \E c \in {1, 2} : sessions = SeedSessions(c)
    /\ records = {}
    /\ announcements = {}
    /\ requests = NoRequests

\* the rosters are built before any attendance is taken
InitEnroll ==
    /\ users = SeedUsers
    /\ students = SeedStudents
    /\ courses = SeedCourses
    /\ enrollments \in SeedEnrollments
    /\ sessions = SeedSessions(1)
    /\ records = {}
    /\ announcements = {}
    /\ requests = NoRequests

\* announcements are posted against the courses that are already there
InitAnnounce ==
    /\ users = SeedUsers
    /\ students = SeedStudents
    /\ courses = SeedCourses
    /\ enrollments = SeedViewRoster
    /\ sessions = SeedSessions(1)
    /\ records = {}
    /\ announcements = {}
    /\ requests = NoRequests

\* accounts are opened and rosters are built while attendance is taken
InitAccount ==
    /\ users = SeedUsers
    /\ students = SeedStudents
    /\ courses = SeedCourses
    /\ enrollments \in SeedEnrollments
    /\ sessions = SeedSessions(1)
    /\ records = {}
    /\ announcements = {}
    /\ requests = NoRequests

\* sessions are scheduled, changed and removed while attendance is taken
InitSession ==
    /\ users = SeedUsers
    /\ students = SeedStudents
    /\ courses = SeedCourses
    /\ enrollments = SeedViewRoster
    /\ sessions = SeedSessions(1)
    /\ records = {}
    /\ announcements = {}
    /\ requests = NoRequests

\* the views are read while attendance is taken
InitView ==
    /\ users = SeedUsers
    /\ students = SeedStudents
    /\ courses = SeedCourses
    /\ enrollments = SeedViewRoster
    /\ \E c \in {1, 2} : sessions = SeedSessions(c)
    /\ records = {}
    /\ announcements = {}
    /\ requests = NoRequests

\* the requests: an input the handler does not read before it answers is
\* left at its default
checkin_request ==
    \E uid \in UserIds, session_id \in {NULL} \cup SessionIds :
        IF checkin_result(uid, session_id, 0, 1).code # 201
        THEN checkin(uid, session_id, 0, 1)
        ELSE \E now \in Times, utcnow \in Stamps : checkin(uid, session_id, now, utcnow)

mark_attendance_request ==
    \E uid \in UserIds :
        LET answer(session_id, student_id, status) ==
                mark_attendance_result(uid, session_id, student_id, status, NoneStr, 1)
        IN
        IF answer(MISSING, MISSING, NoStatus).code = 403
        THEN mark_attendance(uid, MISSING, MISSING, NoStatus, NoneStr, 1)
        ELSE \E session_id \in {MISSING} \cup SessionIds :
            IF \/ session_id = MISSING
               \/ answer(session_id, 1, PRESENT).msg \in {"Session not found", "Unauthorized"}
            THEN mark_attendance(uid, session_id, 1, PRESENT, NoneStr, 1)
            ELSE \E student_id \in {MISSING} \cup StudentIds :
                IF \/ student_id = MISSING
                   \/ answer(session_id, student_id, PRESENT).msg = "Student not found"
                THEN mark_attendance(uid, session_id, student_id, PRESENT, NoneStr, 1)
                ELSE \E status \in StatusInputs :
                    IF answer(session_id, student_id, status).code \notin {200, 201}
                    THEN mark_attendance(uid, session_id, student_id, status, NoneStr, 1)
                    ELSE \E notes \in Notes, utcnow \in Stamps :
                            mark_attendance(uid, session_id, student_id, status,
                                            notes, utcnow)

upload_students_request ==
    \E uid \in UserIds, filename \in Filenames, course_id \in {NULL} \cup CourseIds :
        IF upload_students_result(uid, filename, course_id, <<>>).code # 200
        THEN upload_students(uid, filename, course_id, <<>>)
        ELSE \E rows \in RowLists : upload_students(uid, filename, course_id, rows)

get_student_attendance_request ==
    \E uid \in UserIds, student_id \in StudentIds :
        LET answer(course_id, date_from, date_to, joins_merge) ==
                get_student_attendance(uid, student_id, course_id, date_from, date_to,
                                       joins_merge)
        IN
        IF get_student_attendance_result(uid, student_id, NULL, NoneStr, NoneStr,
                                         TRUE).code # 200
        THEN answer(NULL, NoneStr, NoneStr, TRUE)
        ELSE \E course_id \in {NULL, 1},
                date_from \in {NoneStr, "2024-01-02", "01/02/2024"} :
            IF date_from # NoneStr /\ bad_date(date_from)
            THEN answer(course_id, date_from, NoneStr, TRUE)
            ELSE \E date_to \in {NoneStr, "2024-01-01"} :
                IF joins(course_id, date_from, date_to) > 1
                THEN \E joins_merge \in BOOLEAN :
                        answer(course_id, date_from, date_to, joins_merge)
                ELSE answer(course_id, date_from, date_to, TRUE)

Next ==
    \/ checkin_request
    \/ mark_attendance_request
    \/ \E uid \in UserIds, course_id \in CourseIds :
          get_course_attendance(uid, course_id)
    \/ \E uid \in UserIds, session_id \in SessionIds :
          start_session(uid, session_id)
    \/ \E uid \in UserIds, session_id \in SessionIds :
          end_session(uid, session_id)

NextEnroll ==
    \/ \E uid \in UserIds, course_id \in CourseIds :
          enroll_student(uid, course_id)
    \/ upload_students_request

NextView ==
    \/ checkin_request
    \/ mark_attendance_request
    \/ \E uid \in UserIds, session_id \in SessionIds :
          start_session(uid, session_id)
    \/ \E uid \in UserIds, session_id \in SessionIds :
          end_session(uid, session_id)
    \/ get_student_attendance_request
    \/ \E uid \in UserIds, session_id \in SessionIds :
          get_session_attendance(uid, session_id)
    \/ \E uid \in UserIds, course_id \in {NULL, 1},
          date_from \in {NoneStr, "01/02/2024"} :
          get_attendance_summary(uid, course_id, date_from, NoneStr)
    \/ \E uid \in UserIds, student_id \in StudentIds, format \in {"CSV", "html"},
          course_id \in {NULL, 2} :
          export_student_attendance(uid, student_id, format, course_id, NoneStr,
                                    NoneStr, TRUE)

\* the announcement requests; a body whose title or content is missing is
\* answered before the rest is read
create_announcement_request ==
    \E uid \in UserIds, title \in Titles, content \in Contents :
        IF create_announcement_result(uid, title, content, 1, FALSE, "normal").code
              \in {400, 403}
              /\ create_announcement_result(uid, title, content, 1, FALSE, "normal").msg
                    \in {"Unauthorized", "title is required", "content is required"}
        THEN create_announcement(uid, title, content, 1, FALSE, "normal")
        ELSE \E course_id \in {NULL} \cup CourseIds, is_global \in BOOLEAN,
                priority \in Priorities :
                create_announcement(uid, title, content, course_id, is_global, priority)

NextAnnounce ==
    \/ create_announcement_request
    \/ \E uid \in UserIds, announcement_id \in AnnouncementIds, data \in UpdateBodies :
          update_announcement(uid, announcement_id, data)
    \/ \E uid \in UserIds, announcement_id \in AnnouncementIds :
          delete_announcement(uid, announcement_id)

create_session_request ==
    \E uid \in UserIds, course_id \in {NULL, 1, 4}, body \in SessionForms :
        create_session(uid, course_id, body[1], body[2], body[3], body[4])

NextSession ==
    \/ create_session_request
    \/ \E uid \in UserIds, session_id \in SessionIds, data \in SessionBodies :
          update_session(uid, session_id, data)
    \/ \E uid \in UserIds, session_id \in SessionIds :
          delete_session(uid, session_id)
    \/ \E uid \in UserIds, session_id \in SessionIds :
          start_session(uid, session_id)
    \/ \E uid \in UserIds, session_id \in SessionIds :
          end_session(uid, session_id)
    \/ \E uid \in UserIds, session_id \in SessionIds :
          checkin(uid, session_id, 1, 1)
    \/ \E uid \in UserIds, format \in {"CSV", "pdf", "html"},
          date_from \in {NoneStr, "01/02/2024"} :
          export_course_attendance(uid, 1, format, date_from, NoneStr)

register_request ==
    \E email \in RegisterEmails, role \in RoleInputs :
        IF register_result(email, role, NoneStr, NoneStr).code = 400
              /\ register_result(email, role, NoneStr, NoneStr).users = users
              /\ upper_role(role) # STUDENT
        THEN register(email, role, NoneStr, NoneStr)
        ELSE \E student_id \in {NoneStr} \cup Matricules,
                department \in DepartmentInputs :
                register(email, role, student_id, department)

NextAccount ==
    \/ register_request
    \/ upload_students_request
    \/ \E uid \in UserIds, course_id \in {1, 3, 4} :
          enroll_student(uid, course_id)
    \/ \E uid \in UserIds, course_id \in {3, 4}, data \in CourseBodies :
          update_course(uid, course_id, data)
    \/ \E uid \in UserIds : start_session(uid, 1)
    \/ \E uid \in UserIds : checkin(uid, 1, 1, 1)

NextRace ==
    \/ \E uid \in UserIds : start_session(uid, 1)
    \/ \E p \in Requesters, uid \in UserIds, now \in {1, MaxTime} :
          begin_checkin(p, uid, 1, now, 1)
    \/ \E p \in Requesters, uid \in UserIds, student_id \in StudentIds,
          status \in {ABSENT, "late"} :
          begin_mark_attendance(p, uid, 1, student_id, status, NoneStr, MaxStamp)
    \/ \E p \in Requesters : commit_request(p)

Spec == Init /\ [][Next]_vars

SpecRace == InitSession /\ [][NextRace]_vars

SpecAccount == InitAccount /\ [][NextAccount]_vars

SpecSession == InitSession /\ [][NextSession]_vars

SpecAnnounce == InitAnnounce /\ [][NextAnnounce]_vars

SpecView == InitView /\ [][NextView]_vars

SpecEnroll == InitEnroll /\ [][NextEnroll]_vars

-----------------------------------------------------------------------------
(* Who is who in a state *)

\* the users with role STUDENT that have a profile
StudentUsers == {u \in users : u.role = STUDENT /\ student_profile(u) # {}}

\* the profile key of a student user
ProfileId(u) == First(student_profile(u)).id

\* the lecturer who owns the course of a session
Owner(session) == Get(courses, session.course_id).lecturer_id

\* the student has an active enrollment in the course
Enrolled(student_id, course_id) ==
    \E e \in enrollments :
        e.student_id = student_id /\ e.course_id = course_id /\ e.is_active

\* the stored records of a (session, student) pair
RecordsOf(session_id, student_id) ==
    {r \in records : r.session_id = session_id /\ r.student_id = student_id}

\* a record the student made by checking in
SelfMarked(r) ==
    \E u \in StudentUsers : r.marked_by = u.id /\ r.student_id = ProfileId(u)

-----------------------------------------------------------------------------
\* C1: a check-in by a student with a profile on an existing session whose
\* attendance_open is false answers 400 "Attendance is not open for this
\* session" and leaves attendance_records as it was, whatever the time,
\* whether or not the student is enrolled and whether or not a record for
\* the pair exists.
C1_ClosedGateFirst ==
    \A u \in StudentUsers, s \in sessions, now \in Times, utcnow \in Stamps :
        ~s.attendance_open =>
            checkin_result(u.id, s.id, now, utcnow) =
                [code |-> 400, msg |-> "Attendance is not open for this session",
                 records |-> records]

\* a closed session with a stored record of an enrolled student, a student
\* who is not enrolled in its course, and the check-in of both refused
C1_Witness ==
    \E s \in sessions, u, v \in StudentUsers :
        /\ ~s.attendance_open
        /\ RecordsOf(s.id, ProfileId(u)) # {}
        /\ Enrolled(ProfileId(u), s.course_id)
        /\ ~Enrolled(ProfileId(v), s.course_id)
        /\ checkin_result(u.id, s.id, MaxTime, 1).code = 400
        /\ checkin_result(v.id, s.id, 0, 1).code = 400

\* C2: a check-in that succeeds (the session is open, the student is
\* actively enrolled, no record of the pair exists) adds exactly one record,
\* whose status is LATE when the time of day is after the session's
\* start_time and PRESENT when it is before or equal; never ABSENT or EXCUSED.
C2_LateAfterStart ==
    \A u \in StudentUsers, s \in sessions, now \in Times, utcnow \in Stamps :
        LET r == checkin_result(u.id, s.id, now, utcnow)
            added == r.records \ records
        IN r.code = 201 =>
              /\ s.attendance_open
              /\ Enrolled(ProfileId(u), s.course_id)
              /\ RecordsOf(s.id, ProfileId(u)) = {}
              /\ records \subseteq r.records
              /\ Cardinality(added) = 1
              /\ \A a \in added :
                    /\ a.session_id = s.id /\ a.student_id = ProfileId(u)
                    /\ now > s.start_time => a.status = LATE
                    /\ now <= s.start_time => a.status = PRESENT
                    /\ a.status \notin {ABSENT, EXCUSED}

\* two sessions of different dates and start times, each with a check-in on
\* record, one LATE and one PRESENT, and an open session where a check-in at
\* the start time itself succeeds
C2_Witness ==
    /\ \E a, b \in records :
          /\ SelfMarked(a) /\ SelfMarked(b)
          /\ a.status = LATE /\ b.status = PRESENT
          /\ Get(sessions, a.session_id).session_date
                # Get(sessions, b.session_id).session_date
    /\ \E a \in records : SelfMarked(a) /\ a.status = PRESENT
                          /\ Get(sessions, a.session_id).start_time > 0

\* the lecturers who own the course of the session
Owners(s) == {l \in users : l.role = LECTURER /\ l.id = Owner(s)}

\* no two rows of the table are of the same (session, student) pair
OnePerPair(rows) ==
    \A a, b \in rows :
        (a.session_id = b.session_id /\ a.student_id = b.student_id) => a.id = b.id

\* the keys of the table's rows are distinct
DistinctKeys(rows) == \A a, b \in rows : a.id = b.id => a = b

\* C3: in every state there is at most one record per (session, student)
\* pair, every answer of checkin and mark_attendance keeps it so, and a
\* lecturer's mark of a pair that has a record answers 200 and leaves the
\* number of rows as it was (it updates the row instead of inserting one).
C3_OneRecordPerPair ==
    /\ OnePerPair(records) /\ DistinctKeys(records)
    /\ \A u \in users, s \in sessions, now \in Times, utcnow \in Stamps :
          LET r == checkin_result(u.id, s.id, now, utcnow)
          IN OnePerPair(r.records) /\ DistinctKeys(r.records)
    /\ \A s \in sessions, l \in users, st \in students, x \in AttendanceStatus,
          n \in Notes, utcnow \in Stamps :
          LET r == mark_attendance_result(l.id, s.id, st.id, x, n, utcnow)
          IN /\ OnePerPair(r.records) /\ DistinctKeys(r.records)
             /\ (RecordsOf(s.id, st.id) # {} /\ l \in Owners(s)
                    /\ Enrolled(st.id, s.course_id)) =>
                   /\ r.code = 200
                   /\ Cardinality(r.records) = Cardinality(records)

\* two pairs have a record each, one made by check-in and one by the
\* lecturer, and marking either of them again answers 200
C3_Witness ==
    \E a, b \in records :
        /\ a.id # b.id
        /\ SelfMarked(a) /\ ~SelfMarked(b)
        /\ \A c \in {a, b} :
              mark_attendance_result(Owner(Get(sessions, c.session_id)), c.session_id,
                                     c.student_id, ABSENT, NoneStr, 1).code = 200

\* C4: when a record of the pair exists, made by check-in or by the
\* lecturer, the student's check-in on the open session answers 400
\* "Already checked in" and attendance_records stays as it was.
C4_DuplicateCheckIn ==
    \A u \in StudentUsers, s \in sessions, now \in Times, utcnow \in Stamps :
        (/\ s.attendance_open
         /\ Enrolled(ProfileId(u), s.course_id)
         /\ RecordsOf(s.id, ProfileId(u)) # {}) =>
            checkin_result(u.id, s.id, now, utcnow) =
                [code |-> 400, msg |-> "Already checked in", records |-> records]

\* an open session with a lecturer's EXCUSED mark for one student and the
\* check-in of another, and the check-in of both refused as a duplicate
C4_Witness ==
    \E s \in sessions, u, v \in StudentUsers :
        /\ s.attendance_open
        /\ \E a \in RecordsOf(s.id, ProfileId(u)) :
              ~SelfMarked(a) /\ a.status = EXCUSED /\ a.notes = "sick"
        /\ \E b \in RecordsOf(s.id, ProfileId(v)) : SelfMarked(b)
        /\ checkin_result(u.id, s.id, 0, 1).msg = "Already checked in"
        /\ checkin_result(v.id, s.id, 0, 1).msg = "Already checked in"

\* C5: for the lecturer who owns the session's course, a student enrolled
\* in it and a valid status: if the pair has a record, mark_attendance
\* answers 200 "Attendance updated successfully" and the row keeps its key
\* and pair, with status, notes, marked_at and marked_by set from the
\* request; if it has none, mark_attendance answers 201 and adds one row.
C5_MarkOverwrites ==
    \A s \in sessions, st \in students, x \in StatusInputs, n \in Notes,
       utcnow \in Stamps :
        \A l \in Owners(s) :
            (Enrolled(st.id, s.course_id) /\ upper(x) \in AttendanceStatus) =>
                LET r == mark_attendance_result(l.id, s.id, st.id, x, n, utcnow)
                    old == RecordsOf(s.id, st.id)
                    row(id) == [id |-> id, session_id |-> s.id, student_id |-> st.id,
                                status |-> upper(x), marked_at |-> utcnow,
                                marked_by |-> l.id, notes |-> n]
                IN IF old # {}
                   THEN \E e \in old :
                           /\ old = {e}
                           /\ r = [code |-> 200, msg |-> "Attendance updated successfully",
                                   records |-> (records \ {e}) \cup {row(e.id)}]
                   ELSE /\ r.code = 201 /\ r.msg = "Attendance marked successfully"
                        /\ \E id \in 1..(Cardinality(records) + 1) :
                              /\ id \notin Ids(records)
                              /\ r.records = records \cup {row(id)}

\* a record the student made by a LATE check-in, which the lecturer's mark
\* as EXCUSED with a note replaces under the same key
C5_Witness ==
    \E a \in records :
        /\ SelfMarked(a) /\ a.status = LATE
        /\ LET s == Get(sessions, a.session_id)
               r == mark_attendance_result(Owner(s), s.id, a.student_id, "EXCUSED",
                                           "sick", MaxStamp)
           IN /\ r.code = 200
              /\ [a EXCEPT !.status = EXCUSED, !.notes = "sick",
                           !.marked_by = Owner(s), !.marked_at = MaxStamp] \in r.records
              /\ a \notin r.records

\* the records a lecturer's mark left: marked_by is the owner of the course
\* of the record's session
LecturerMarked(r) == r.marked_by = Owner(Get(sessions, r.session_id))

\* C6 as stated: after a mark with status x has left a record for the pair,
\* a second mark_attendance by the lecturer with the same session, student
\* and status answers 200 and changes nothing of the record but marked_at.
C6_OnlyMarkedAtRefreshed ==
    \A e \in records, n \in Notes, utcnow \in Stamps :
        LecturerMarked(e) =>
            mark_attendance_result(e.marked_by, e.session_id, e.student_id,
                                   e.status, n, utcnow) =
                [code |-> 200, msg |-> "Attendance updated successfully",
                 records |-> (records \ {e}) \cup {[e EXCEPT !.marked_at = utcnow]}]

\* C6: after a mark with status x has left a record for the pair, a second
\* mark_attendance by the lecturer with the same session, student and status
\* answers 200, keeps the number of rows, and leaves the record with the same
\* key, pair, status and marked_by; marked_at is refreshed and notes is
\* replaced by the notes of the second request (None when it has none).
C6_RepeatMarkKeepsIdentity ==
    \A e \in records, n \in Notes, utcnow \in Stamps :
        LecturerMarked(e) =>
            LET r == mark_attendance_result(e.marked_by, e.session_id, e.student_id,
                                            e.status, n, utcnow)
            IN /\ r.code = 200
               /\ r.records =
                     (records \ {e}) \cup {[e EXCEPT !.marked_at = utcnow, !.notes = n]}
               /\ Cardinality(r.records) = Cardinality(records)
               /\ Cardinality({a \in r.records : a.session_id = e.session_id
                                                  /\ a.student_id = e.student_id}) = 1

\* a record the lecturer marked with a note at stamp 1, whose second mark
\* with the same status and no note at a later stamp clears the note
C6_Witness ==
    \E e \in records :
        /\ LecturerMarked(e) /\ e.notes = "sick" /\ e.marked_at = 1
        /\ [e EXCEPT !.marked_at = MaxStamp, !.notes = NoneStr] \in
              mark_attendance_result(e.marked_by, e.session_id, e.student_id,
                                     e.status, NoneStr, MaxStamp).records

\* C7: every stored record's student has an active enrollment in the course
\* of the record's session; a check-in or mark that changes
\* attendance_records is for an actively enrolled student; and a request for
\* a student without an active enrollment answers neither 200 nor 201 and
\* leaves attendance_records as it was, with 403 "Not enrolled in this
\* course" from checkin on an open session and 403 "Student not enrolled in
\* this course" from the owner's mark_attendance with a valid status.
C7_OnlyEnrolledRecorded ==
    /\ \A a \in records : Enrolled(a.student_id, Get(sessions, a.session_id).course_id)
    /\ \A u \in StudentUsers, s \in sessions, now \in Times, utcnow \in Stamps :
          LET r == checkin_result(u.id, s.id, now, utcnow)
          IN /\ r.records # records => Enrolled(ProfileId(u), s.course_id)
             /\ ~Enrolled(ProfileId(u), s.course_id) =>
                   /\ r.code \notin {200, 201} /\ r.records = records
                   /\ s.attendance_open =>
                         r.code = 403 /\ r.msg = "Not enrolled in this course"
    /\ \A l \in users, s \in sessions, st \in students, x \in StatusInputs,
          n \in Notes, utcnow \in Stamps :
          LET r == mark_attendance_result(l.id, s.id, st.id, x, n, utcnow)
          IN /\ r.records # records => Enrolled(st.id, s.course_id)
             /\ ~Enrolled(st.id, s.course_id) =>
                   /\ r.code \notin {200, 201} /\ r.records = records
                   /\ (l \in Owners(s) /\ upper(x) \in AttendanceStatus) =>
                         r.code = 403 /\ r.msg = "Student not enrolled in this course"

\* records are stored, and a student whose only enrollment row in the course
\* of an open session is inactive is refused by checkin and by the owner's
\* mark_attendance
C7_Witness ==
    /\ records # {}
    /\ \E s \in sessions, u \in StudentUsers :
          /\ s.attendance_open
          /\ \E e \in enrollments :
                e.student_id = ProfileId(u) /\ e.course_id = s.course_id /\ ~e.is_active
          /\ ~Enrolled(ProfileId(u), s.course_id)
          /\ checkin_result(u.id, s.id, 0, 1).code = 403
          /\ mark_attendance_result(Owner(s), s.id, ProfileId(u), PRESENT, NoneStr, 1).code
                = 403

\* no two rows of the table are of the same (student, course) pair
OnePerStudentCourse(rows) ==
    \A a, b \in rows :
        (a.student_id = b.student_id /\ a.course_id = b.course_id) => a.id = b.id

\* C8: enroll_student for a student with an active enrollment in the course
\* answers 400 and leaves the enrollment rows and their flags as they were;
\* the answer is "Already enrolled in this course" when the course is ACTIVE
\* (a course that is not ACTIVE is refused before the enrollment is read).
C8_AlreadyEnrolledConflict ==
    \A u \in StudentUsers, c \in courses :
        Enrolled(ProfileId(u), c.id) =>
            LET r == enroll_student_result(u.id, c.id)
            IN /\ r.code = 400
               /\ r.enrollments = enrollments
               /\ c.status = ACTIVE => r.msg = "Already enrolled in this course"

\* a student who enrolled in an ACTIVE course by a request (the row has a
\* key the store gave it) and whose second request is refused
C8_Witness ==
    \E u \in StudentUsers, e \in enrollments :
        /\ e.student_id = ProfileId(u) /\ e.is_active /\ e.id # 5
        /\ Get(courses, e.course_id).status = ACTIVE
        /\ enroll_student_result(u.id, e.course_id) =
              [code |-> 400, msg |-> "Already enrolled in this course",
               enrollments |-> enrollments]

\* C9: in every state there is at most one enrollment row per (student,
\* course); every answer of enroll_student and upload_students, and the row
\* loop of upload_students on any sheet, keeps it so; and enroll_student for
\* a student whose row in an ACTIVE course is inactive answers 200
\* "Enrollment reactivated", sets the flag of that row and adds no row.
C9_OneEnrollmentPerPair ==
    /\ OnePerStudentCourse(enrollments) /\ DistinctKeys(enrollments)
    /\ \A u \in users, c \in courses :
          LET r == enroll_student_result(u.id, c.id)
          IN /\ OnePerStudentCourse(r.enrollments) /\ DistinctKeys(r.enrollments)
             /\ (u \in StudentUsers /\ c.status = ACTIVE) =>
                   \A e \in enrollments :
                       (e.student_id = ProfileId(u) /\ e.course_id = c.id
                           /\ ~e.is_active) =>
                           r = [code |-> 200, msg |-> "Enrollment reactivated",
                                enrollments |-> (enrollments \ {e}) \cup
                                                {[e EXCEPT !.is_active = TRUE]}]
    /\ \A u \in users, f \in Filenames, c \in courses, rows \in RowLists :
          LET r == upload_students_result(u.id, f, c.id, rows)
              db == process_rows([users |-> users, students |-> students,
                                  enrollments |-> enrollments], c.id, rows)
          IN /\ OnePerStudentCourse(r.enrollments) /\ DistinctKeys(r.enrollments)
             /\ OnePerStudentCourse(db.enrollments) /\ DistinctKeys(db.enrollments)

\* the row that was inactive before any request is active, under its old
\* key, next to a row a later enrollment added
C9_Witness ==
    \E e, f \in enrollments :
        /\ e.id = 5 /\ e.is_active /\ Get(courses, e.course_id).status = ACTIVE
        /\ f.id # 5 /\ f.is_active

\* C10: when get_course_attendance answers 200 for a course with active
\* roster S and sessions L, attendance_matrix has |S| rows, one per student
\* of S, each with |L| cells, one per session of L; a cell holds the stored
\* record of its (session, student) when there is one and the synthesized
\* ABSENT entry with marked_at None when there is none.
C10_MatrixShape ==
    \A u \in users, c \in courses :
        LET r == get_course_attendance_result(u.id, c.id)
            S == {st \in students : Enrolled(st.id, c.id)}
            L == {s \in sessions : s.course_id = c.id}
        IN r.code = 200 =>
              LET m == r.attendance_matrix IN
              /\ Len(m) = Cardinality(S)
              /\ {m[i].student : i \in 1..Len(m)} = {st.id : st \in S}
              /\ \A i \in 1..Len(m) :
                    /\ Len(m[i].sessions) = Cardinality(L)
                    /\ {m[i].sessions[j].session : j \in 1..Cardinality(L)}
                          = {s.id : s \in L}
                    /\ \A j \in 1..Len(m[i].sessions) :
                          LET cell == m[i].sessions[j]
                              stored == RecordsOf(cell.session, m[i].student)
                          IN IF stored = {}
                             THEN cell.attendance = [status |-> ABSENT, marked_at |-> NULL]
                             ELSE cell.attendance \in stored

\* the administrator's view of a course with two enrolled students and two
\* sessions: a matrix of two rows of two cells, with a stored cell and a
\* synthesized one
C10_Witness ==
    \E u \in users, c \in courses :
        LET r == get_course_attendance_result(u.id, c.id) IN
        /\ r.code = 200
        /\ Len(r.attendance_matrix) = 2
        /\ Len(r.attendance_matrix[1].sessions) = 2
        /\ \E i, k \in 1..2, j, l \in 1..2 :
              /\ r.attendance_matrix[i].sessions[j].attendance \in records
              /\ r.attendance_matrix[k].sessions[l].attendance =
                    [status |-> ABSENT, marked_at |-> NULL]

\* the sessions of the course for which the student has a stored record
\* with one of the statuses
SessionsWith(student_id, course_id, statuses) ==
    {s \in sessions :
        /\ s.course_id = course_id
        /\ \E a \in RecordsOf(s.id, student_id) : a.status \in statuses}

\* C11: when get_course_attendance answers 200, each row's attendance_rate
\* is (the student's sessions with a PRESENT or LATE record) / (all sessions
\* of the course) x 100, rounded to two places: 100 for a student with a
\* PRESENT or LATE record for every session, less than 100 for a student
\* with a synthesized ABSENT cell, and 0 for a course without sessions.
\* Rates are in hundredths of a percent.
C11_MatrixRate ==
    \A u \in users, c \in courses :
        LET r == get_course_attendance_result(u.id, c.id)
            L == {s \in sessions : s.course_id = c.id}
        IN r.code = 200 =>
              \A i \in 1..Len(r.attendance_matrix) :
                  LET row == r.attendance_matrix[i]
                      attended == SessionsWith(row.student, c.id, {PRESENT, LATE})
                      unrecorded == {s \in L : RecordsOf(s.id, row.student) = {}}
                      rate == row.statistics.attendance_rate
                  IN /\ row.statistics.total_sessions = Cardinality(L)
                     /\ L = {} => rate = 0
                     /\ L # {} =>
                           /\ Cardinality(L) * rate <= Cardinality(attended) * 10000
                                                         + Cardinality(L) \div 2
                           /\ Cardinality(L) * rate >= Cardinality(attended) * 10000
                                                         - Cardinality(L) \div 2
                           /\ attended = L => rate = 10000
                           /\ unrecorded # {} => rate < 10000

\* the administrator's view of a course of two sessions with a row at 100
\* (a LATE and a PRESENT record) and a row of two synthesized cells at 0
C11_Witness ==
    \E u \in users, c \in courses :
        LET r == get_course_attendance_result(u.id, c.id) IN
        /\ r.code = 200 /\ r.total_sessions = 2
        /\ \E i, k \in 1..Len(r.attendance_matrix) :
              /\ r.attendance_matrix[i].statistics.attendance_rate = 10000
              /\ r.attendance_matrix[i].statistics.late = 1
              /\ r.attendance_matrix[i].statistics.present = 1
              /\ r.attendance_matrix[k].statistics.attendance_rate = 0
              /\ r.attendance_matrix[k].statistics.absent = 2
              /\ \A j \in 1..2 :
                    r.attendance_matrix[k].sessions[j].attendance = synthesized

\* the stored records of the student that match the filters of a request
Matching(student_id, course_id, date_from, date_to) ==
    {a \in records :
        /\ a.student_id = student_id
        /\ course_id # NULL => Get(sessions, a.session_id).course_id = course_id
        /\ date_from # NoneStr =>
              Get(sessions, a.session_id).session_date >= strptime(date_from)
        /\ date_to # NoneStr =>
              Get(sessions, a.session_id).session_date <= strptime(date_to)}

\* C12: when get_student_attendance answers 200, total_sessions is the
\* number of stored records that match the filters and attendance_rate is
\* (PRESENT records + LATE records) / (matching records) x 100 rounded to
\* two places, whatever the number of sessions held; without a matching
\* record the answer is still 200 and the rate is 0.  Rates are in
\* hundredths of a percent.
C12_StudentRate ==
    \A u \in users, st \in students, c \in {NULL} \cup {x.id : x \in courses},
       date_from, date_to \in DateInputs, joins_merge \in BOOLEAN :
        LET r == get_student_attendance_result(u.id, st.id, c, date_from, date_to,
                                               joins_merge)
            M == Matching(st.id, c, date_from, date_to)
            attended == {a \in M : a.status \in {PRESENT, LATE}}
        IN r.code = 200 =>
              /\ r.statistics.total_sessions = Cardinality(M)
              /\ M = {} => r.statistics.attendance_rate = 0
              /\ M # {} =>
                    /\ 2 * Cardinality(M) * r.statistics.attendance_rate
                          <= 2 * Cardinality(attended) * 10000 + Cardinality(M)
                    /\ 2 * Cardinality(M) * r.statistics.attendance_rate
                          >= 2 * Cardinality(attended) * 10000 - Cardinality(M)
                    /\ attended = M => r.statistics.attendance_rate = 10000

\* a student of a course of two sessions with one record, LATE: the rate of
\* the unfiltered view is 100 although a session has no record, and the
\* view filtered to the course without records answers 200 with rate 0
C12_Witness ==
    \E u \in StudentUsers, c, d \in courses :
        LET st == ProfileId(u)
            r == get_student_attendance_result(u.id, st, NULL, NoneStr, NoneStr, TRUE)
            z == get_student_attendance_result(u.id, st, d.id, NoneStr, NoneStr, TRUE)
        IN /\ Enrolled(st, c.id) /\ Enrolled(st, d.id)
           /\ Cardinality({s \in sessions : s.course_id \in {c.id, d.id}}) = 2
           /\ r.code = 200 /\ r.statistics.total_sessions = 1
           /\ r.statistics.late = 1 /\ r.statistics.attendance_rate = 10000
           /\ z.code = 200 /\ z.statistics.total_sessions = 0
           /\ z.statistics.attendance_rate = 0

\* the students with an active enrollment in the course
Roster(course_id) == {st \in students : Enrolled(st.id, course_id)}

\* C13: for the lecturer who owns the session's course, get_session_attendance
\* answers 200 with one entry per actively enrolled student, total_enrolled
\* is the size of the roster, and total_absent is the number of enrolled
\* students without a stored record for the session, which is the number of
\* synthesized ABSENT entries of the list and is not negative.
C13_SessionViewTotals ==
    \A s \in sessions :
        \A l \in Owners(s) :
            LET r == get_session_attendance_result(l.id, s.id)
                S == Roster(s.course_id)
                list == r.attendance_records
                unrecorded == {st \in S : RecordsOf(s.id, st.id) = {}}
            IN /\ r.code = 200
               /\ Len(list) = Cardinality(S)
               /\ {list[i].student : i \in 1..Len(list)} = {st.id : st \in S}
               /\ r.total_enrolled = Cardinality(S)
               /\ r.total_absent = Cardinality(unrecorded)
               /\ r.total_absent =
                     Cardinality({i \in 1..Len(list) : list[i].attendance = synthesized})
               /\ r.total_absent >= 0
               /\ \A i \in 1..Len(list) :
                     list[i].attendance # synthesized =>
                        list[i].attendance \in RecordsOf(s.id, list[i].student)

\* the owner's view of a session with two enrolled students, one marked
\* ABSENT by a stored record and one without a record: total_absent is 1
C13_Witness ==
    \E s \in sessions :
        LET r == get_session_attendance_result(Owner(s), s.id) IN
        /\ r.code = 200 /\ r.total_enrolled = 2 /\ r.total_absent = 1
        /\ \E a \in records : a.session_id = s.id /\ a.status = ABSENT

\* the users with role ADMIN
Admins == {u \in users : u.role = ADMIN}

\* C14 as stated: the session view answered to an ADMIN has one entry per
\* enrolled student of the session's course, a synthesized ABSENT entry for
\* each student without a record, and the three totals.
C14_AdminViewLikeOwner ==
    \A s \in sessions, u \in Admins :
        LET r == get_session_attendance_result(u.id, s.id)
            S == Roster(s.course_id)
        IN /\ r.code = 200
           /\ {"total_enrolled", "total_present", "total_absent"} \subseteq DOMAIN r
           /\ Len(r.attendance_records) = Cardinality(S)
           /\ \A st \in S :
                 RecordsOf(s.id, st.id) = {} =>
                    \E i \in 1..Len(r.attendance_records) :
                        r.attendance_records[i] =
                            [student |-> st.id, attendance |-> synthesized]

\* C14: the session view answered to an ADMIN is 200 with the session and
\* the list of the stored records of the session, one entry per record: it
\* has no entry for an enrolled student without a record and carries none
\* of total_enrolled, total_present and total_absent.
C14_AdminViewStoredOnly ==
    \A s \in sessions, u \in Admins :
        LET r == get_session_attendance_result(u.id, s.id)
            stored == {a \in records : a.session_id = s.id}
        IN /\ r.code = 200
           /\ DOMAIN r = {"code", "msg", "session", "attendance_records"}
           /\ r.session = s.id
           /\ Len(r.attendance_records) = Cardinality(stored)
           /\ {r.attendance_records[i] : i \in 1..Len(r.attendance_records)} = stored

\* a session with two enrolled students and one stored record, of which the
\* owner's list has two entries and the administrator's list one
C14_Witness ==
    \E s \in sessions, u \in Admins :
        LET r == get_session_attendance_result(u.id, s.id)
            o == get_session_attendance_result(Owner(s), s.id)
        IN /\ o.code = 200 /\ Len(o.attendance_records) = 2 /\ o.total_absent = 1
           /\ r.code = 200 /\ Len(r.attendance_records) = 1
           /\ \E a \in records : a.session_id # s.id

\* C15: in every answer of get_attendance_summary, for every course listed,
\* total_records is the number of stored records of the course's sessions in
\* scope, and absent is (sessions in scope) x (actively enrolled students)
\* - total_records, which is the number of (session in scope, enrolled
\* student) pairs without a stored record and is not negative.
C15_SummaryAbsent ==
    \A u \in users, c \in {NULL} \cup {x.id : x \in courses},
       date_from, date_to \in DateInputs :
        LET r == get_attendance_summary_result(u.id, c, date_from, date_to) IN
        r.code = 200 =>
            \A i \in 1..Len(r.course_summaries) :
                LET e == r.course_summaries[i]
                    scope == {s \in sessions :
                                 /\ s.course_id = e.course
                                 /\ date_from # NoneStr =>
                                       s.session_date >= strptime(date_from)
                                 /\ date_to # NoneStr =>
                                       s.session_date <= strptime(date_to)}
                    S == Roster(e.course)
                    stored == {a \in records : a.session_id \in {s.id : s \in scope}}
                    unrecorded == {p \in {s.id : s \in scope} \X {st.id : st \in S} :
                                      RecordsOf(p[1], p[2]) = {}}
                IN /\ c # NULL => e.course = c
                   /\ e.total_records = Cardinality(stored)
                   /\ e.absent = Cardinality(scope) * Cardinality(S) - e.total_records
                   /\ e.absent = Cardinality(unrecorded)
                   /\ e.absent >= 0

\* the summary the owner reads of a course with two sessions, two enrolled
\* students and two stored records of different students: absent is 2
C15_Witness ==
    \E l \in users, c \in courses :
        LET r == get_attendance_summary_result(l.id, c.id, NoneStr, NoneStr) IN
        /\ l.role = LECTURER /\ r.code = 200 /\ Len(r.course_summaries) = 1
        /\ r.course_summaries[1].total_sessions = 2
        /\ r.course_summaries[1].enrolled_students = 2
        /\ r.course_summaries[1].total_records = 2
        /\ r.course_summaries[1].absent = 2
        /\ \E a, b \in records : a.student_id # b.student_id

\* C16: a LECTURER whose user id is course.lecturer_id, authenticated with
\* the identity login issues, is answered 200 by get_course_attendance, and
\* a lecturer is answered 403 only for a course of another lecturer.
C16_OwnerReadsMatrix ==
    \A l \in users, c \in courses :
        l.role = LECTURER =>
            LET r == get_course_attendance_result(l.id, c.id) IN
            /\ c.lecturer_id = l.id => r.code = 200
            /\ r.code = 403 => c.lecturer_id # l.id

\* the users with role STUDENT, with a profile or without
StudentRole == {u \in users : u.role = STUDENT}

\* the student is not the requester's own profile
NotOwn(u, student_id) ==
    \A p \in student_profile(u) : p.id # student_id

\* C17: a user with role STUDENT is never answered 200 by
\* get_student_attendance or export_student_attendance for a student who is
\* not the requester's own profile, and is answered 403 when the requester
\* has a profile; and a 200 of get_session_attendance to a STUDENT is for a
\* session of a course the requester is actively enrolled in and carries
\* only the requester's own record.
C17_StudentReadsOwnOnly ==
    /\ \A u \in StudentRole, st \in students, c \in {NULL} \cup {x.id : x \in courses},
          date_from, date_to \in {NoneStr, "2024-01-01"}, f \in Formats,
          joins_merge \in BOOLEAN :
          NotOwn(u, st.id) =>
              LET v == get_student_attendance_result(u.id, st.id, c, date_from, date_to,
                                                     joins_merge)
                  x == export_student_attendance_result(u.id, st.id, f, c, date_from,
                                                        date_to, joins_merge)
              IN /\ v.code # 200 /\ x.code # 200
                 /\ student_profile(u) # {} => v.code = 403 /\ x.code = 403
    /\ \A u \in StudentRole, s \in sessions :
          LET r == get_session_attendance_result(u.id, s.id) IN
          r.code = 200 =>
              /\ u \in StudentUsers
              /\ Enrolled(ProfileId(u), s.course_id)
              /\ \A i \in 1..Len(r.attendance) :
                    r.attendance[i] \in RecordsOf(s.id, ProfileId(u))

\* C18: a 200 of get_student_attendance or export_student_attendance to a
\* LECTURER shows only records of sessions of courses whose lecturer_id is
\* the requester.
C18_LecturerReadsOwnCourses ==
    \A l \in users, st \in students, c \in {NULL} \cup {x.id : x \in courses},
       date_from, date_to \in {NoneStr, "2024-01-01"}, f \in Formats,
       joins_merge \in BOOLEAN :
        l.role = LECTURER =>
            LET v == get_student_attendance_result(l.id, st.id, c, date_from, date_to,
                                                   joins_merge)
                x == export_student_attendance_result(l.id, st.id, f, c, date_from,
                                                      date_to, joins_merge)
            IN /\ v.code = 200 =>
                     \A i \in 1..Len(v.attendance_records) :
                         Owner(Get(sessions, v.attendance_records[i].session_id)) = l.id
               /\ x.code = 200 =>
                     \A i \in 1..Len(x.data) :
                         Get(courses, x.data[i].Course).lecturer_id = l.id

\* C19: a mark_attendance request changes attendance_records only when the
\* requester has role LECTURER and owns the course of the target session.  A
\* requester of another role is answered 403 "Only lecturers can mark
\* attendance"; a lecturer who does not own the course of the session the
\* request names is answered 403 "Unauthorized" when the request carries
\* session, student and status; in both cases no record is created or
\* modified.
C19_OnlyOwnerMarks ==
    \A u \in users, s \in sessions, st \in {MISSING} \cup StudentIds,
       x \in StatusInputs, n \in Notes, utcnow \in Stamps :
        LET r == mark_attendance_result(u.id, s.id, st, x, n, utcnow) IN
        /\ r.records # records => u.role = LECTURER /\ Owner(s) = u.id
        /\ u.role # LECTURER =>
              r = [code |-> 403, msg |-> "Only lecturers can mark attendance",
                   records |-> records]
        /\ (u.role = LECTURER /\ Owner(s) # u.id) =>
              /\ r.code \notin {200, 201} /\ r.records = records
              /\ (st # MISSING /\ x # NoStatus) =>
                    r.code = 403 /\ r.msg = "Unauthorized"

\* a session that is open and has a record, whose course another lecturer
\* owns: that lecturer, the administrator and the recorded student are all
\* refused when they mark the recorded student ABSENT
C19_Witness ==
    \E a \in records, l \in users :
        LET s == Get(sessions, a.session_id)
            try(uid) == mark_attendance_result(uid, s.id, a.student_id, ABSENT,
                                               "sick", MaxStamp)
        IN /\ s.attendance_open
           /\ l.role = LECTURER /\ Owner(s) # l.id
           /\ try(l.id).msg = "Unauthorized"
           /\ \A u \in users : u.role # LECTURER => try(u.id).code = 403
           /\ try(Owner(s)).code = 200

\* C20: every global announcement in the table was created by an ADMIN,
\* every course announcement whose author is a LECTURER is about a course
\* that lecturer owns, and a request that is answered 201 adds exactly one
\* row, whose author_id is the requester's id; any other answer adds none.
C20_AnnouncementAuthority ==
    /\ \A a \in announcements :
          /\ Has(users, a.author_id)
          /\ a.is_global => Get(users, a.author_id).role = ADMIN
          /\ (a.course_id # NULL /\ Get(users, a.author_id).role = LECTURER) =>
                /\ Has(courses, a.course_id)
                /\ Get(courses, a.course_id).lecturer_id = a.author_id
    /\ \A uid \in UserIds, title \in Titles, content \in Contents,
          course_id \in {NULL} \cup CourseIds, is_global \in BOOLEAN,
          priority \in Priorities :
          LET r == create_announcement_result(uid, title, content, course_id,
                                              is_global, priority)
              added == r.announcements \ announcements
          IN /\ announcements \subseteq r.announcements
             /\ r.code # 201 => added = {}
             /\ r.code = 201 =>
                   /\ Cardinality(added) = 1
                   /\ \A a \in added :
                         /\ a.author_id = uid
                         /\ a.course_id = course_id
                         /\ a.is_global = is_global

\* the table holds a global announcement of the administrator and a course
\* announcement of the lecturer who owns the course, while the other
\* lecturer is refused for that course and every lecturer is refused a
\* global announcement
C20_Witness ==
    /\ \E a \in announcements :
          a.is_global /\ Get(users, a.author_id).role = ADMIN
    /\ \E a \in announcements, l \in users :
          /\ ~a.is_global /\ a.course_id # NULL
          /\ Get(users, a.author_id).role = LECTURER
          /\ Get(courses, a.course_id).lecturer_id = a.author_id
          /\ l.role = LECTURER /\ l.id # a.author_id
          /\ create_announcement_result(l.id, "Exam", "Room 2", a.course_id, FALSE,
                                        "normal").msg = "Unauthorized - not your course"
          /\ create_announcement_result(a.author_id, "Exam", "Room 2", a.course_id,
                                        TRUE, "normal").msg
                = "Only admins can create global announcements"

\* the PUT bodies that change exactly one of the two times
OneTimeBodies ==
    {[start_time |-> t] : t \in {"08:00", "09:00", "10:00"}}
        \cup {[end_time |-> t] : t \in {"08:00", "09:00", "10:00"}}

\* C21: every stored session starts strictly before it ends; create_session
\* answers 400 and stores nothing when the parsed start_time is not before
\* the parsed end_time, and update_session answers 400 and leaves the
\* session as it was when the times it would leave are not in order, also
\* when the body changes only one of the two times.
C21_StartBeforeEnd ==
    /\ \A s \in sessions : s.start_time < s.end_time
    /\ \A uid \in UserIds, course_id \in CourseIds,
          start_time \in TimeInputs, end_time \in TimeInputs :
          LET r == create_session_result(uid, course_id, "Lab", "2024-01-01",
                                         start_time, end_time)
          IN /\ \A s \in r.sessions : s.start_time < s.end_time
             /\ (/\ ~bad_time(start_time) /\ ~bad_time(end_time)
                 /\ strptime_time(start_time) >= strptime_time(end_time)) =>
                   r.code \in {400, 403, 404} /\ r.sessions = sessions
             /\ (r.code = 400 /\ ~bad_time(start_time) /\ ~bad_time(end_time)) =>
                   r.msg = "Start time must be before end time"
    /\ \A uid \in UserIds, s \in sessions, data \in SessionBodies \cup OneTimeBodies :
          LET r == update_session_result(uid, s.id, data)
              start_time == IF "start_time" \in DOMAIN data /\ ~bad_time(data.start_time)
                            THEN strptime_time(data.start_time) ELSE s.start_time
              end_time == IF "end_time" \in DOMAIN data /\ ~bad_time(data.end_time)
                          THEN strptime_time(data.end_time) ELSE s.end_time
          IN /\ \A q \in r.sessions : q.start_time < q.end_time
             /\ start_time >= end_time => r.code \in {400, 403, 500} /\ r.sessions = sessions
             /\ (start_time >= end_time /\ data \in OneTimeBodies
                    /\ Get(courses, s.course_id).lecturer_id = uid) =>
                   r.code = 400 /\ r.msg = "Start time must be before end time"

\* a session created through the API and a session whose times an update
\* has changed are stored, and the owner is refused both a new session that
\* ends when it starts and an update of the start time alone to the end time
C21_Witness ==
    \E s \in sessions, q \in sessions :
        /\ s.id = MaxSessions
        /\ q.id = 1 /\ q.start_time = 0 /\ q.end_time = 2
        /\ create_session_result(2, 1, "Lab", "2024-01-01", "10:00", "10:00").msg
              = "Start time must be before end time"
        /\ update_session_result(2, q.id, [start_time |-> "10:00"]).msg
              = "Start time must be before end time"
        /\ update_session_result(2, s.id, [end_time |-> "08:00"]).code = 400

\* the answers that report an error
ErrorCodes == {400, 403, 404, 500}

\* C22: a request that is answered 400, 403, 404 or 500 leaves every table
\* as it was: the tables a handler's answer carries are the stored ones,
\* also for update_session and update_course, which assign to the loaded
\* row before they validate, and for register, which flushes the new user
\* before it validates the student data.
C22_ErrorsChangeNothing ==
    /\ \A email \in RegisterEmails, role \in RoleInputs,
          student_id \in {NoneStr} \cup Matricules, department \in DepartmentInputs :
          LET r == register_result(email, role, student_id, department) IN
          r.code \in ErrorCodes => r.users = users /\ r.students = students
    /\ \A uid \in UserIds, course_id \in CourseIds, data \in CourseBodies :
          LET r == update_course_result(uid, course_id, data) IN
          r.code \in ErrorCodes => r.courses = courses
    /\ \A uid \in UserIds, session_id \in SessionIds :
          /\ \A data \in SessionBodies :
                LET r == update_session_result(uid, session_id, data) IN
                r.code \in ErrorCodes => r.sessions = sessions
          /\ LET r == delete_session_result(uid, session_id) IN
             r.code \in ErrorCodes => r.sessions = sessions /\ r.records = records
          /\ LET r == start_session_result(uid, session_id) IN
             r.code \in ErrorCodes => r.sessions = sessions
          /\ LET r == end_session_result(uid, session_id) IN
             r.code \in ErrorCodes => r.sessions = sessions
          /\ \A now \in Times :
                LET r == checkin_result(uid, session_id, now, 1) IN
                r.code \in ErrorCodes => r.records = records
          /\ \A student_id \in StudentIds, status \in StatusInputs :
                LET r == mark_attendance_result(uid, session_id, student_id, status,
                                                NoneStr, 1) IN
                r.code \in ErrorCodes => r.records = records
    /\ \A uid \in UserIds, course_id \in {NULL} \cup CourseIds :
          /\ \A body \in SessionForms :
                LET r == create_session_result(uid, course_id, body[1], body[2],
                                               body[3], body[4]) IN
                r.code \in ErrorCodes => r.sessions = sessions
          /\ LET r == enroll_student_result(uid, course_id) IN
             r.code \in ErrorCodes => r.enrollments = enrollments
          /\ \A filename \in Filenames, rows \in RowLists :
                LET r == upload_students_result(uid, filename, course_id, rows) IN
                r.code \in ErrorCodes =>
                    r.users = users /\ r.students = students
                        /\ r.enrollments = enrollments
          /\ \A title \in Titles, is_global \in BOOLEAN :
                LET r == create_announcement_result(uid, title, "Room 2", course_id,
                                                    is_global, "normal") IN
                r.code \in ErrorCodes => r.announcements = announcements
    /\ \A uid \in UserIds, announcement_id \in AnnouncementIds :
          /\ \A data \in UpdateBodies :
                LET r == update_announcement_result(uid, announcement_id, data) IN
                r.code \in ErrorCodes => r.announcements = announcements
          /\ LET r == delete_announcement_result(uid, announcement_id) IN
             r.code \in ErrorCodes => r.announcements = announcements

\* a session has been started and a course updated, and three requests
\* that assign or flush before they validate are refused: an update of a
\* session's name with an end time before its start, an update of a
\* course's name with an unknown status, a registration of a student with
\* a malformed student ID
C22_Witness ==
    /\ \E s \in sessions : s.attendance_open
    /\ courses # SeedCourses
    /\ \E s \in sessions :
          update_session_result(Get(courses, s.course_id).lecturer_id, s.id,
                                [session_name |-> "Lab", end_time |-> "08:00"]).code = 400
    /\ \E c \in courses :
          /\ c.course_name # "Nets"
          /\ update_course_result(c.lecturer_id, c.id,
                                  [course_name |-> "Nets", status |-> "bogus"]).code = 400
    /\ \E email \in RegisterEmails :
          register_result(email, "student", "22A003", "computer_software").msg
              = "Invalid student ID format (should be FE22A111)"

\* C23: each row of the csv or excel course export has the five identity
\* columns, then one column per session in scope in the order of
\* (session_date, start_time), then the four statistic columns, so that n
\* sessions in scope give n session columns.
C23_OneColumnPerSession ==
    \A uid \in UserIds, course_id \in CourseIds, format \in {"excel", "CSV"},
       date_from \in {NoneStr, "2024-01-01", "2024-01-02"},
       date_to \in {NoneStr, "2024-01-01", "2024-01-02"} :
        LET r == export_course_attendance_result(uid, course_id, format, date_from, date_to)
            sess == sessions_in_scope(course_id, date_from, date_to)
        IN r.code = 200 =>
              \A i \in DOMAIN r.data :
                  /\ Len(r.data[i]) = 5 + Len(sess) + 4
                  /\ keys(r.data[i])
                        = <<"Student ID", "First Name", "Last Name", "Department",
                            "Year of Study">>
                          \o [j \in 1..Len(sess) |-> session_key(sess[j])]
                          \o <<"Total Sessions", "Present/Late", "Absent",
                               "Attendance Rate (%)">>

\* the student profiles a table holds for a user
ProfilesOf(rows, user_id) == {p \in rows : p.user_id = user_id}

Raced(p, q) ==
    /\ p # q
    /\ requests[p].stage = "done" /\ requests[q].stage = "done"
    /\ requests[p].kind = "insert" /\ requests[q].kind = "insert"
    /\ \E a \in requests[p].pending, b \in requests[q].pending :
          a.session_id = b.session_id /\ a.student_id = b.student_id

\* C25: when two check-in or mark requests for the same (session, student)
\* pair both pass the existence check before either commits, one record of
\* the pair is stored afterwards, one request is answered 201 and the other
\* 500, and the commit that is answered 500 leaves attendance_records as
\* it was.
C25_RaceKeepsOneRecord ==
    /\ [](/\ unique_attendance(records)
          /\ \A p, q \in Requesters :
                Raced(p, q) =>
                    /\ {requests[p].code, requests[q].code} = {201, 500}
                    /\ \A a \in requests[p].pending :
                          Cardinality(existing_records(a.session_id, a.student_id)) = 1)
    /\ [][\A p \in Requesters :
             (requests[p].stage = "checked" /\ requests'[p].stage = "done"
                 /\ requests'[p].code = 500) => records' = records]_vars

\* a check-in and a lecturer's mark of the same pair have raced: both are
\* answered, one with 201 and one with 500
C25_Witness ==
    \E p, q \in Requesters :
        /\ Raced(p, q)
        /\ requests[p].handler = "checkin" /\ requests[q].handler = "mark_attendance"
        /\ requests[p].code = 500 /\ requests[q].code = 201

\* the gate of every session of the table before that is in the table after
SameGates(before_rows, after_rows) ==
    \A s \in before_rows, q \in after_rows :
        s.id = q.id => s.attendance_open = q.attendance_open

\* the user is the lecturer who owns the session's course
OwnsSession(uid, s) ==
    /\ Has(users, uid) /\ Get(users, uid).role = LECTURER
    /\ Get(courses, s.course_id).lecturer_id = uid

\* C26: a session is created with attendance_open false; start_session
\* succeeds exactly for the owning lecturer on a closed gate and opens it
\* (on an open gate the owner is answered 400 and the gate stays),
\* end_session succeeds exactly for the owning lecturer on an open gate and
\* closes it; no other request changes a gate, so a gate opens only by a
\* successful start and closes only by a successful end, and a check-in is
\* accepted only while the gate is open.
C26_GateAlternates ==
    /\ [](/\ \A uid \in UserIds, course_id \in {NULL} \cup CourseIds,
                body \in SessionForms :
                LET r == create_session_result(uid, course_id, body[1], body[2],
                                               body[3], body[4]) IN
                /\ \A q \in r.sessions \ sessions : ~q.attendance_open
                /\ SameGates(sessions, r.sessions)
          /\ \A uid \in UserIds, s \in sessions :
                LET started == start_session_result(uid, s.id)
                    ended == end_session_result(uid, s.id)
                IN /\ started.code = 200 <=> (OwnsSession(uid, s) /\ ~s.attendance_open)
                   /\ started.code = 200 =>
                         started.sessions = (sessions \ {s})
                                               \cup {[s EXCEPT !.attendance_open = TRUE]}
                   /\ started.code # 200 => started.sessions = sessions
                   /\ (OwnsSession(uid, s) /\ s.attendance_open) =>
                         started.code = 400 /\ started.msg = "Session already started"
                   /\ ended.code = 200 <=> (OwnsSession(uid, s) /\ s.attendance_open)
                   /\ ended.code = 200 =>
                         ended.sessions = (sessions \ {s})
                                             \cup {[s EXCEPT !.attendance_open = FALSE]}
                   /\ ended.code # 200 => ended.sessions = sessions
                   /\ (OwnsSession(uid, s) /\ ~s.attendance_open) =>
                         ended.code = 400 /\ ended.msg = "Session not started yet"
                   /\ \A data \in SessionBodies :
                         SameGates(sessions, update_session_result(uid, s.id, data).sessions)
                   /\ SameGates(sessions, delete_session_result(uid, s.id).sessions)
                   /\ \A now \in Times :
                         checkin_result(uid, s.id, now, 1).code = 201 => s.attendance_open)
    /\ [][\A s \in sessions, q \in sessions' :
             (s.id = q.id /\ s.attendance_open # q.attendance_open) =>
                 \E uid \in UserIds :
                     /\ OwnsSession(uid, s)
                     /\ IF q.attendance_open
                        THEN /\ start_session_result(uid, s.id).code = 200
                             /\ sessions' = start_session_result(uid, s.id).sessions
                        ELSE /\ end_session_result(uid, s.id).code = 200
                             /\ sessions' = end_session_result(uid, s.id).sessions]_vars

\* a session created through the API has been started and a student has
\* checked in to it; its owner is refused a second start, and the owner of
\* a closed session is refused an end
C26_Witness ==
    \E s \in sessions, q \in sessions, a \in records :
        /\ s.id = MaxSessions /\ s.attendance_open
        /\ a.session_id = s.id /\ a.marked_by \in {u.id : u \in StudentUsers}
        /\ start_session_result(Get(courses, s.course_id).lecturer_id, s.id).msg
              = "Session already started"
        /\ ~q.attendance_open
        /\ end_session_result(Get(courses, q.course_id).lecturer_id, q.id).msg
              = "Session not started yet"

\* every enrollment row of the table before is in the table after, for the
\* same student and course, and active if it was active
RosterKept(before_rows, after_rows) ==
    \A e \in before_rows : \E q \in after_rows :
        /\ q.id = e.id /\ q.student_id = e.student_id /\ q.course_id = e.course_id
        /\ e.is_active => q.is_active

\* C27: no request deletes an enrollment row or clears its is_active flag,
\* so the active roster of a course never shrinks, and the student of every
\* stored attendance record is actively enrolled in the course of the
\* record's session.
C27_RosterNeverShrinks ==
    /\ [](/\ \A r \in records :
                Enrolled(r.student_id, Get(sessions, r.session_id).course_id)
          /\ \A uid \in UserIds, course_id \in CourseIds :
                RosterKept(enrollments, enroll_student_result(uid, course_id).enrollments)
          /\ \A uid \in UserIds, course_id \in {NULL} \cup CourseIds,
                filename \in Filenames, rows \in RowLists :
                RosterKept(enrollments,
                           upload_students_result(uid, filename, course_id, rows).enrollments)
          /\ \A course_id \in CourseIds, rows \in RowLists :
                RosterKept(enrollments,
                           process_rows([users |-> users, students |-> students,
                                         enrollments |-> enrollments],
                                        course_id, rows).enrollments))
    /\ [][RosterKept(enrollments, enrollments')]_vars

\* a deactivated enrollment has been reactivated by its student, who has
\* then checked in to a session of the course
C27_Witness ==
    \E e \in enrollments, r \in records :
        /\ e.id = 5 /\ e.is_active /\ e \notin UNION SeedEnrollments
        /\ r.student_id = e.student_id
        /\ Get(sessions, r.session_id).course_id = e.course_id

\* the session keys that the student views, the course matrices and the
\* summary show to any requester
ShownSessions ==
    UNION {
      {v.attendance_records[i].session_id : i \in DOMAIN v.attendance_records} :
        v \in {w \in {get_student_attendance_result(uid, st.id, NULL, NoneStr, NoneStr, TRUE) :
                         uid \in UserIds, st \in students} : w.code = 200}}
    \cup UNION {
      {v.sessions[j] : j \in DOMAIN v.sessions}
         \cup {v.attendance_matrix[i].sessions[j].session :
                  i \in DOMAIN v.attendance_matrix, j \in DOMAIN v.sessions}
         \cup {v.attendance_matrix[p[1]].sessions[p[2]].attendance.session_id :
                  p \in {q \in (DOMAIN v.attendance_matrix) \X (DOMAIN v.sessions) :
                            v.attendance_matrix[q[1]].sessions[q[2]].attendance
                               # synthesized}} :
        v \in {w \in {get_course_attendance_result(uid, c.id) :
                         uid \in UserIds, c \in courses} : w.code = 200}}

\* the summary an administrator reads counts the stored sessions and the
\* records of the stored sessions
SummaryCountsStored ==
    \A u \in Admins :
        LET v == get_attendance_summary_result(u.id, NULL, NoneStr, NoneStr) IN
        /\ v.code = 200
        /\ v.summary.total_sessions = Cardinality(sessions)
        /\ v.summary.total_attendance_records
              = Cardinality({r \in records : r.session_id \in Ids(sessions)})

\* C28: delete_session succeeds exactly for the lecturer who owns the
\* session's course and removes the session together with every attendance
\* record of it (otherwise both tables stay); every stored record references
\* a stored session; and in every state the student views, the course
\* matrices and the summary show stored sessions only, so none of them
\* shows a deleted session or its records.
C28_DeleteCascades ==
    /\ [](/\ \A r \in records : Has(sessions, r.session_id)
          /\ ShownSessions \subseteq Ids(sessions)
          /\ SummaryCountsStored
          /\ \A uid \in UserIds, s \in sessions :
                LET d == delete_session_result(uid, s.id) IN
                /\ d.code = 200 <=> OwnsSession(uid, s)
                /\ d.code = 200 =>
                      /\ d.sessions = sessions \ {s}
                      /\ d.records = {r \in records : r.session_id # s.id}
                /\ d.code # 200 => d.sessions = sessions /\ d.records = records)
    /\ [][\A s \in sessions :
             s.id \notin Ids(sessions') =>
                 records' = {r \in records : r.session_id # s.id}]_vars

\* the seeded session 1 has been deleted, and a remaining session holds a
\* record that its owner's delete request would remove with it
C28_Witness ==
    /\ ~Has(sessions, 1)
    /\ \E s \in sessions, uid \in UserIds :
          LET d == delete_session_result(uid, s.id) IN
          /\ d.code = 200
          /\ d.records # records
          /\ \E r \in records : r.session_id = s.id

\* the records of the other (session, student) pairs
OtherPairs(rows, session_id, student_id) ==
    {r \in rows : ~(r.session_id = session_id /\ r.student_id = student_id)}

\* C29: mark_attendance by the lecturer who owns the session's course, for
\* a student actively enrolled in it and a valid status, is answered 201
\* (no record of the pair yet) or 200 (the record is overwritten) whether
\* the session's gate is open or closed; afterwards the pair has one record
\* with the given status, the records of every other pair are as before,
\* and the step that stores it leaves attendance_open and the enrollment
\* rows alone.
C29_MarkIgnoresGate ==
    /\ [](\A s \in sessions, uid \in UserIds, st \in students,
             status \in StatusInputs, notes \in Notes, utcnow \in Stamps :
             (/\ OwnsSession(uid, s)
              /\ Enrolled(st.id, s.course_id)
              /\ upper(status) \in AttendanceStatus) =>
                 LET r == mark_attendance_result(uid, s.id, st.id, status, notes, utcnow) IN
                 /\ r.code = IF RecordsOf(s.id, st.id) = {} THEN 201 ELSE 200
                 /\ OtherPairs(r.records, s.id, st.id) = OtherPairs(records, s.id, st.id)
                 /\ \E a \in r.records :
                       /\ r.records \ OtherPairs(r.records, s.id, st.id) = {a}
                       /\ a.status = upper(status)
                       /\ a.marked_by = uid
                       /\ a.notes = notes)
    /\ [][\A a \in records' \ records :
             a.marked_by \in {u.id : u \in {l \in users : l.role = LECTURER}} =>
                 /\ sessions' = sessions
                 /\ enrollments' = enrollments
                 /\ OtherPairs(records', a.session_id, a.student_id)
                       = OtherPairs(records, a.session_id, a.student_id)]_vars

\* the owning lecturer has marked a student in a session whose gate is
\* closed and has overwritten a student's own check-in in a session whose
\* gate is open
C29_Witness ==
    \E a \in records, b \in records :
        /\ ~Get(sessions, a.session_id).attendance_open
        /\ a.marked_by = Owner(Get(sessions, a.session_id))
        /\ a.id = 1
        /\ Get(sessions, b.session_id).attendance_open
        /\ b.marked_by = Owner(Get(sessions, b.session_id))
        /\ b.status = EXCUSED
        /\ b.id = 2

\* the rates of a course by student key, as the course export computes them
\* for its rows without a date filter
ExportRates(course_id) ==
    LET sess == sessions_in_scope(course_id, NoneStr, NoneStr)
        enrolled == export_students(course_id)
        attendance_records ==
            {r \in records : \E j \in 1..Len(sess) : sess[j].id = r.session_id}
    IN {<<enrolled[i].id,
          dict_get(course_export_row(enrolled[i], sess, attendance_records),
                   "Attendance Rate (%)")>> : i \in 1..Len(enrolled)}

\* the rates of a course by student key, as the matrix view computes them
MatrixRates(course_id) ==
    LET m == attendance_matrix(course_id) IN
    {<<m[i].student, m[i].statistics.attendance_rate>> : i \in DOMAIN m}

\* C30: for every course and without a date filter, the attendance rate
\* that the course export writes into a student's row equals the
\* attendance_rate of the same student in the matrix view, for every
\* actively enrolled student, in what the two handlers compute and in what
\* they answer to a requester both of them admit.
C30_ExportRateIsMatrixRate ==
    \A c \in courses :
        /\ ExportRates(c.id) = MatrixRates(c.id)
        /\ \A uid \in UserIds, format \in {"csv", "excel"} :
              LET e == export_course_attendance_result(uid, c.id, format, NoneStr, NoneStr)
                  m == get_course_attendance_result(uid, c.id)
              IN (e.code = 200 /\ m.code = 200) =>
                    /\ Len(e.data) = Len(m.attendance_matrix)
                    /\ \A i \in DOMAIN e.data : \E j \in DOMAIN m.attendance_matrix :
                          /\ Get(students, m.attendance_matrix[j].student).student_id
                                = dict_get(e.data[i], "Student ID")
                          /\ m.attendance_matrix[j].statistics.attendance_rate
                                = dict_get(e.data[i], "Attendance Rate (%)")

\* course 1 has three sessions, a student of it was late to one of them,
\* and the export and the matrix answer an administrator with a rate of
\* 33.33 for that student
C30_Witness ==
    /\ Cardinality({s \in sessions : s.course_id = 1}) = 3
    /\ \E a \in records, u \in Admins :
          /\ a.status = LATE
          /\ export_course_attendance_result(u.id, 1, "csv", NoneStr, NoneStr).code = 200
          /\ get_course_attendance_result(u.id, 1).code = 200
          /\ <<a.student_id, 3333>> \in ExportRates(1) \cap MatrixRates(1)

====
